---------------------------- MODULE Spec2Model ----------------------------
(***************************************************************************)
(* A model of the crypto P2P collection pipeline:                          *)
(*   - ExchangeRateCollector.calculate_premium and                         *)
(*     collect_crisis_period_rates      (utils/exchange_rates.py)          *)
(*   - the adapters' standardization    (scrapers/binance_p2p.py,          *)
(*     scrapers/platforms/okx_p2p.py, paxful_historical.py)                *)
(*   - BinanceP2PScraper.collect_country_data and the collection log       *)
(*   - CSVDataManager.save_raw_ads / load_raw_ads (utils/csv_data_manager) *)
(*   - DataCollectionOrchestrator.collect_current_snapshot                 *)
(*   - get_profile_by_country_code / _name (utils/country_profiles.py)     *)
(* Every component has its own variables, its own initial condition and    *)
(* its own specification; a specification leaves the other components      *)
(* idle.                                                                   *)
(***************************************************************************)
EXTENDS Integers, Sequences, FiniteSets, TLC

VARIABLES
    \* calculate_premium: the arguments, the position and the outcome
    crypto_price, official_rate, base_value, prem_pc, premium_pct,
    \* collect_crisis_period_rates: the arguments and the environment
    \* (days are counted from start_date, which is day 0)
    cr_known,       \* the country code has a profile
    cr_dates_ok,    \* start_date and end_date parse as %Y-%m-%d
    end_dt,         \* end_date, in days after start_date
    today,          \* datetime.now().date(), in days after start_date
    fiat_every,     \* the upstream lists the fiat on the days divisible by
                    \* fiat_every (0: on no day)
    \* collect_crisis_period_rates: the locals and the result
    cr_pc, current_dt, requests, rates_data, cr_result,
    \* the exchange-rate file of the store
    rate_log,
    \* one call of an adapter's standardization: the adapter, the raw record,
    \* the side argument, the country code, the position and the outcome
    st_adapter, st_raw, st_side, st_country, st_pc, st_out,
    \* the store (CSVDataManager and the directories it writes)
    today_date,     \* date.today(), as a day number
    raw_files,      \* the raw-ad files, in the order a directory listing
                    \* yields them: [date, platform, country, lines]
    collection_log, \* the rows of metadata/collection_log.csv
    sv_ads,         \* the caller's list of ads of the last save_raw_ads
                    \* call, as the call left it
    sv_orig,        \* the same list as it was passed in
    ld_last,        \* the last load_raw_ads call: its filters and its table
    ld_prev,        \* the table of the call before it, when that call had
                    \* the same filters and nothing was written in between
    \* one collection of one adapter for one country
    co_adapter, co_country,
    co_loc,         \* the locals of collect_country_data and its position
    co_result,      \* what the call returned or raised
    \* BinanceP2PScraper.collect_all_countries: the position, the loop's
    \* index, what each collect_country_data call did, and all_data
    ac_pc, ac_i, ac_runs, all_data,
    \* collect_current_snapshot: the argument, the position, the locals
    countries, oc_pc, oc_i, platform_ads, platform_countries,
    collection_summary,
    oc_rates,       \* how collect_all_current_rates ended
    oc_cells,       \* how each (platform, country) cell ended, in order
    \* one country-profile lookup: the loaded table, the argument, the
    \* function called, the position and the outcome
    pf_profiles, pf_query, pf_by, pf_pc, pf_result,
    \* the wall clock and the collection ids handed out so far
    clock,          \* datetime.now(), in clock steps after a full hour
    generated_ids,  \* what the generate_collection_id calls returned
    \* one get_priority_events call: the catalog, the argument, the
    \* position and the list returned
    crisis_events, min_priority, tl_pc, tl_result,
    \* the crisis correlation step
    btc_data,       \* the daily closes of the instrument: [day, close]
    an_events,      \* the event dates to analyse, as day numbers
    an_routine,     \* which of the two implementations runs
    an_i,           \* the loop's position in an_events
    an_log,         \* what each pass of the loop printed about its event
    an_split,       \* the window of each pass and the subsets it made
    crisis_analysis,\* the rows of analyze_crisis_correlations
    correlations,   \* the rows of correlate_with_historical_data
    \* one get_current_rates or get_historical_rates call
    api_key,        \* self.api_key is set
    upstream,       \* what each source answers to a request of the call
    fx_call,        \* which of the two functions is called
    fx_pc, fx_i,    \* the position and the index of the loop over sources
    fx_queried,     \* the sources a request was sent to, in order
    fx_rates,       \* the map returned
    sm_df,          \* the table load_raw_ads returned to create_daily_summary
    sm_pc,          \* where the create_daily_summary call stands
    sm_file,        \* the summary file the call wrote
    results         \* what collect_comprehensive_snapshot returned

premVars == <<crypto_price, official_rate, base_value, prem_pc, premium_pct>>
crisisVars == <<cr_known, cr_dates_ok, end_dt, today, fiat_every,
                cr_pc, current_dt, requests, rates_data, cr_result, rate_log>>

stdVars == <<st_adapter, st_raw, st_side, st_country, st_pc, st_out>>

storeVars == <<today_date, raw_files, collection_log, sv_ads, sv_orig,
               ld_last, ld_prev>>

collectVars == <<co_adapter, co_country, co_loc, co_result,
                 ac_pc, ac_i, ac_runs, all_data>>

orchVars == <<countries, oc_pc, oc_i, platform_ads, platform_countries,
              collection_summary, oc_rates, oc_cells>>

profVars == <<pf_profiles, pf_query, pf_by, pf_pc, pf_result>>

idVars == <<clock, generated_ids>>

timelineVars == <<crisis_events, min_priority, tl_pc, tl_result>>

corrVars == <<btc_data, an_events, an_routine, an_i, an_log, an_split,
              crisis_analysis, correlations>>

fxVars == <<api_key, upstream, fx_call, fx_pc, fx_i, fx_queried, fx_rates>>

sumVars == <<sm_df, sm_pc, sm_file>>
compVars == <<results>>
analysisVars == <<idVars, timelineVars, corrVars, fxVars, sumVars, compVars>>

vars == <<premVars, crisisVars, stdVars, storeVars, collectVars, orchVars,
          profVars, analysisVars>>

notAnalysisVars == <<premVars, crisisVars, stdVars, storeVars, collectVars,
                     orchVars, profVars>>
notIdVars == <<notAnalysisVars, timelineVars, corrVars, fxVars, sumVars,
                compVars>>
notTimelineVars == <<notAnalysisVars, idVars, corrVars, fxVars, sumVars,
                      compVars>>
notCorrVars == <<notAnalysisVars, idVars, timelineVars, fxVars, sumVars,
                  compVars>>
notFxVars == <<notAnalysisVars, idVars, timelineVars, corrVars, sumVars,
                compVars>>
notSumVars == <<notAnalysisVars, idVars, timelineVars, corrVars, fxVars,
                 compVars>>

Abs(x) == IF x < 0 THEN -x ELSE x

(***************************************************************************)
(* calculate_premium  (utils/exchange_rates.py 268-295)                    *)
(*                                                                         *)
(* Prices, rates and base values are integers here.  A percentage is kept  *)
(* in hundredths of a percent (283.33 is 28333), the unit round(x, 2)      *)
(* rounds to.                                                              *)
(***************************************************************************)

\* Bounds of the arguments drawn for calculate_premium.
MaxPrice == 12
MaxRate == 6
MaxBase == 2

\* The worked example of main(): calculate_premium(2900, 600, 1.0).
ExamplePrice == 2900
ExampleRate == 600

\* The integers nearest to the rational a / b (b # 0): both neighbours when
\* a / b lies exactly half way, since round() then follows the binary
\* representation of the float, which is not modelled.
NearestIntegers(a, b) ==
    LET sa == IF b < 0 THEN -a ELSE a
        sb == Abs(b)
        q  == sa \div sb
        r  == sa - q * sb
    IN  IF 2 * r < sb THEN {q}
        ELSE IF 2 * r > sb THEN {q + 1}
        ELSE {q, q + 1}

\* The numerator of  (crypto_price / official_rate - base_value)  over the
\* denominator official_rate.
ImpliedMinusBaseWrong(price, rate, base) == price - 2 * base * rate
ImpliedMinusBase(price, rate, base) == price - base * rate

\* The outcomes of calculate_premium(price, rate, base): a returned value in
\* hundredths of a percent, or the ZeroDivisionError of the division by
\* base_value.
PremiumOutcomesNoGuard(price, rate, base) ==
    IF base = 0 \/ rate = 0
    THEN {[kind |-> "ZeroDivisionError", value |-> 0]}
    ELSE {[kind |-> "returned", value |-> v] :
            v \in NearestIntegers(10000 * ImpliedMinusBase(price, rate, base),
                                  rate * base)}
PremiumOutcomes(price, rate, base) ==
    IF rate = 0
    THEN {[kind |-> "returned", value |-> 0]}
    ELSE IF base = 0
    THEN {[kind |-> "ZeroDivisionError", value |-> 0]}
    ELSE {[kind |-> "returned", value |-> v] :
            v \in NearestIntegers(10000 * ImpliedMinusBase(price, rate, base),
                                  rate * base)}

PremiumIdle ==
    /\ crypto_price = 0
    /\ official_rate = 0
    /\ base_value = 0
    /\ prem_pc = "idle"
    /\ premium_pct = [kind |-> "none", value |-> 0]

PremiumInputs ==
    /\ crypto_price \in (0 .. MaxPrice) \cup {ExamplePrice}
    /\ official_rate \in (-1 .. MaxRate) \cup {ExampleRate}
    /\ base_value \in -1 .. MaxBase
    /\ prem_pc = "call"
    /\ premium_pct = [kind |-> "none", value |-> 0]

CalculatePremium ==
    /\ prem_pc = "call"
    /\ premium_pct' \in PremiumOutcomes(crypto_price, official_rate, base_value)
    /\ prem_pc' = "done"
    /\ UNCHANGED <<crypto_price, official_rate, base_value>>
    /\ UNCHANGED <<crisisVars, stdVars, storeVars, collectVars,
                   orchVars, profVars, analysisVars>>


(***************************************************************************)
(* collect_crisis_period_rates  (utils/exchange_rates.py 193-266)          *)
(*                                                                         *)
(* Dates are day numbers relative to start_date; timedelta arithmetic on   *)
(* dates is integer arithmetic on them.                                    *)
(***************************************************************************)

\* The longest range (end_date - start_date, in days) drawn.
MaxRangeDays == 205
\* How far after start_date "today" may lie.
MaxToday == 2
\* The sparsest upstream drawn: the fiat is listed every MaxFiatEvery days.
MaxFiatEvery == 2

\* (end_dt - start_dt).days > 90 samples every 7 days.
SAMPLING_THRESHOLD_DAYS == 90
WEEKLY_STEP == 7

\* days_to_add = 7 if (end_dt - start_dt).days > 90 else 1
DaysToAddOffByOne(range) == IF range >= SAMPLING_THRESHOLD_DAYS THEN WEEKLY_STEP ELSE 1
DaysToAdd(range) == IF range > SAMPLING_THRESHOLD_DAYS THEN WEEKLY_STEP ELSE 1

\* fiat in rates, for the rates resolved for day d
FiatInRatesAlways(d) == TRUE
FiatInRates(d) == fiat_every # 0 /\ d % fiat_every = 0

\* rates[fiat] of the rates resolved for day d: the upstream's rate of the
\* day, a different one every day.
RateOn(d) == d + 1

CrisisIdle ==
    /\ cr_known = FALSE
    /\ cr_dates_ok = FALSE
    /\ end_dt = 0
    /\ today = 0
    /\ fiat_every = 0
    /\ cr_pc = "idle"
    /\ current_dt = 0
    /\ requests = <<>>
    /\ rates_data = <<>>
    /\ cr_result = <<>>
    /\ rate_log = <<>>

CrisisInputs ==
    /\ cr_known \in BOOLEAN
    /\ cr_dates_ok \in BOOLEAN
    /\ end_dt \in -1 .. MaxRangeDays
    /\ today \in 0 .. MaxToday
    /\ fiat_every \in 0 .. MaxFiatEvery
    /\ cr_pc = "call"
    /\ current_dt = 0
    /\ requests = <<>>
    /\ rates_data = <<>>
    /\ cr_result = <<>>
    /\ rate_log = <<>>

\* Lines 214-225: the profile lookup and the two strptime calls; a ValueError
\* of any of them is caught at line 264 and [] is returned.
CrisisStart ==
    /\ cr_pc = "call"
    /\ IF cr_known /\ cr_dates_ok
       THEN /\ cr_pc' = "loop"
            /\ current_dt' = 0
            /\ UNCHANGED cr_result
       ELSE /\ cr_pc' = "done"
            /\ cr_result' = <<>>
            /\ UNCHANGED current_dt
    /\ UNCHANGED <<cr_known, cr_dates_ok, end_dt, today, fiat_every,
                   requests, rates_data, rate_log>>
    /\ UNCHANGED <<premVars, stdVars, storeVars, collectVars,
                   orchVars, profVars, analysisVars>>

\* Lines 227-255: one pass of  while current_dt <= end_dt.
CrisisSample ==
    /\ cr_pc = "loop"
    /\ current_dt <= end_dt
    /\ requests' = Append(requests,
                          [day |-> current_dt,
                           source |-> IF current_dt = today
                                      THEN "current" ELSE "historical"])
    /\ rates_data' = IF FiatInRates(current_dt)
                     THEN Append(rates_data,
                                 [day |-> current_dt,
                                  usd_rate |-> RateOn(current_dt)])
                     ELSE rates_data
    /\ current_dt' = current_dt + DaysToAdd(end_dt)
    /\ UNCHANGED <<cr_known, cr_dates_ok, end_dt, today, fiat_every,
                   cr_pc, cr_result, rate_log>>
    /\ UNCHANGED <<premVars, stdVars, storeVars, collectVars,
                   orchVars, profVars, analysisVars>>

\* Lines 257-262: the loop is over; save_exchange_rates appends the records
\* to the rate file when there are any, and rates_data is returned.
CrisisFinish ==
    /\ cr_pc = "loop"
    /\ current_dt > end_dt
    /\ rate_log' = IF rates_data # <<>> THEN rate_log \o rates_data ELSE rate_log
    /\ cr_result' = rates_data
    /\ cr_pc' = "done"
    /\ UNCHANGED <<cr_known, cr_dates_ok, end_dt, today, fiat_every,
                   current_dt, requests, rates_data>>
    /\ UNCHANGED <<premVars, stdVars, storeVars, collectVars,
                   orchVars, profVars, analysisVars>>


(***************************************************************************)
(* Standardization of one upstream record                                  *)
(*   BinanceP2PScraper.standardize_ad       (scrapers/binance_p2p.py)      *)
(*   OKXPPScraper.standardize_ad            (platforms/okx_p2p.py)         *)
(*   PaxfulHistoricalScraper._extract_offers_from_json                     *)
(*                                          (platforms/paxful_historical)  *)
(*                                                                         *)
(* A text is a sequence of characters.  A payment_methods value is a list  *)
(* of labels (kind "list"), one bare text (kind "str": items holds it) or  *)
(* None (kind "none").  A raw record is                                    *)
(*   type    : the offer's own "type" field (Paxful), "absent" if missing  *)
(*   methods : tradeMethods' names (Binance), paymentMethodList (OKX),     *)
(*             payment_method (Paxful)                                     *)
(*   numeric : how float() / int() of the numeric fields end               *)
(***************************************************************************)

PmList(items) == [kind |-> "list", items |-> items]
PmStr(text) == [kind |-> "str", items |-> <<text>>]
PmNone == [kind |-> "none", items |-> <<>>]

COUNTRY_CODES == {"SD", "VE"}

\* The spellings of a side drawn for the side argument and the type field.
SideSpellings == {"BUY", "SELL", "buy", "sell", "Buy", "hold"}

\* str.lower() on the spellings
Lower(t) ==
    CASE t \in {"BUY", "Buy", "buy"} -> "buy"
      [] t \in {"SELL", "sell"} -> "sell"
      [] OTHER -> t

\* "trade_type": trade_type  (binance_p2p.py 137)
BinanceTradeType(trade_type) == trade_type

\* "BUY" if trade_type.lower() == "buy" else "SELL"  (okx_p2p.py 150)
OkxTradeType(trade_type) == IF Lower(trade_type) = "buy" THEN "BUY" ELSE "SELL"

\* "BUY" if offer.get("type") == "buy" else "SELL"  (paxful_historical.py 210)
PaxfulTradeType(type) == IF type = "buy" THEN "BUY" ELSE "SELL"

\* The advertisement an adapter builds; premium_pct is None and no
\* collection_id key exists yet.
Advertisement(platform, trade_type, country, methods) ==
    [platform |-> platform,
     trade_type |-> trade_type,
     country_code |-> country,
     payment_methods |-> methods,
     premium_pct |-> "None",
     collection_id |-> "unset"]

BinanceStandardizeAd(raw, country, trade_type) ==
    Advertisement("binance", BinanceTradeType(trade_type), country, raw.methods)

OkxStandardizeAd(raw, country, trade_type) ==
    Advertisement("okx", OkxTradeType(trade_type), country,
                  IF raw.methods.kind = "absent" THEN PmList(<<>>) ELSE raw.methods)

\* "payment_methods": [offer.get("payment_method", "")]
PaxfulStandardizeOffer(raw, country) ==
    Advertisement("paxful", PaxfulTradeType(raw.type), country,
                  PmList(<<IF raw.methods.kind = "str"
                           THEN raw.methods.items[1] ELSE <<>> >>))

\* The outcome of standardizing raw: the advertisement, or the exception of
\* a float() / int() conversion of a malformed numeric field.
StandardizeOutcome(adapter, raw, country, side) ==
    IF raw.numeric # "ok"
    THEN [kind |-> raw.numeric]
    ELSE [kind |-> "ad",
          ad |-> CASE adapter = "binance" -> BinanceStandardizeAd(raw, country, side)
                   [] adapter = "okx" -> OkxStandardizeAd(raw, country, side)
                   [] adapter = "paxful" -> PaxfulStandardizeOffer(raw, country)]

NumericOutcomes == {"ok", "ValueError", "TypeError"}

\* The raw records drawn for an adapter.
RawRecords(adapter) ==
    CASE adapter = "binance" ->
           [type : {"absent"},
            methods : {PmList(<<>>), PmList(<< <<"a">> >>),
                       PmList(<< <<"a">>, <<"b">> >>)},
            numeric : NumericOutcomes]
      [] adapter = "okx" ->
           [type : {"absent"},
            methods : {PmList(<<>>), PmList(<< <<"a">> >>), PmStr(<<"a">>),
                       PmNone, [kind |-> "absent", items |-> <<>>]},
            numeric : NumericOutcomes]
      [] adapter = "paxful" ->
           [type : SideSpellings \cup {"absent"},
            methods : {PmStr(<<"a">>), PmNone},
            numeric : NumericOutcomes]

StdIdle ==
    /\ st_adapter = "none"
    /\ st_raw = [type |-> "absent", methods |-> PmNone, numeric |-> "ok"]
    /\ st_side = "BUY"
    /\ st_country = "SD"
    /\ st_pc = "idle"
    /\ st_out = [kind |-> "none"]

StdInputs ==
    /\ st_adapter \in {"binance", "okx", "paxful"}
    /\ st_raw \in RawRecords(st_adapter)
    /\ st_side \in SideSpellings
    /\ st_country \in COUNTRY_CODES
    /\ st_pc = "call"
    /\ st_out = [kind |-> "none"]

Standardize ==
    /\ st_pc = "call"
    /\ st_out' = StandardizeOutcome(st_adapter, st_raw, st_country, st_side)
    /\ st_pc' = "done"
    /\ UNCHANGED <<st_adapter, st_raw, st_side, st_country>>
    /\ UNCHANGED <<premVars, crisisVars, storeVars, collectVars,
                   orchVars, profVars, analysisVars>>


(***************************************************************************)
(* The text of a raw-ad file  (utils/csv_data_manager.py)                  *)
(*                                                                         *)
(* save_raw_ads turns a payment_methods list into text with json.dumps,    *)
(* csv.DictWriter writes one line per ad, pandas.read_csv splits the lines *)
(* back into cells and load_raw_ads decodes the cell with json.loads.      *)
(* A character is a one-character string; a field that is a plain word     *)
(* (a platform, a side, a country code, an identifier) is a text of one    *)
(* symbol holding the whole word.                                          *)
(***************************************************************************)

QUOTE == "\""
BACKSLASH == "\\"
COMMA == ","
SPACE == " "

RECURSIVE Concat(_)
Concat(texts) ==
    IF texts = <<>> THEN <<>> ELSE Head(texts) \o Concat(Tail(texts))

RECURSIVE Join(_, _)
Join(texts, sep) ==
    IF texts = <<>> THEN <<>>
    ELSE IF Len(texts) = 1 THEN texts[1]
    ELSE texts[1] \o sep \o Join(Tail(texts), sep)

\* json.dumps of a str: the quote and the backslash are escaped.
JsonStringNoEscape(label) == <<QUOTE>> \o label \o <<QUOTE>>
JsonString(label) ==
    <<QUOTE>>
    \o Concat([i \in 1 .. Len(label) |->
                 IF label[i] \in {QUOTE, BACKSLASH}
                 THEN <<BACKSLASH, label[i]>> ELSE <<label[i]>>])
    \o <<QUOTE>>

\* json.dumps of a list of str: ["a", "b"]
JsonDumps(items) ==
    <<"[">>
    \o Join([i \in 1 .. Len(items) |-> JsonString(items[i])], <<COMMA, SPACE>>)
    \o <<"]">>

JsonFail == [ok |-> FALSE, value |-> <<>>, next |-> 0]

RECURSIVE SkipWs(_, _)
SkipWs(t, i) == IF i <= Len(t) /\ t[i] = SPACE THEN SkipWs(t, i + 1) ELSE i

\* The JSON string whose opening quote was read; i is the next position.
RECURSIVE JsonParseString(_, _, _)
JsonParseString(t, i, acc) ==
    IF i > Len(t) THEN JsonFail
    ELSE IF t[i] = QUOTE THEN [ok |-> TRUE, value |-> acc, next |-> i + 1]
    ELSE IF t[i] = BACKSLASH
    THEN IF i + 1 <= Len(t) /\ t[i + 1] \in {QUOTE, BACKSLASH}
         THEN JsonParseString(t, i + 2, Append(acc, t[i + 1]))
         ELSE JsonFail
    ELSE JsonParseString(t, i + 1, Append(acc, t[i]))

\* The elements of a JSON array after "[" or ","; i is the next position.
RECURSIVE JsonParseItems(_, _, _)
JsonParseItems(t, i, acc) ==
    LET j == SkipWs(t, i) IN
    IF j > Len(t) \/ t[j] # QUOTE THEN JsonFail
    ELSE LET r == JsonParseString(t, j + 1, <<>>) IN
         IF ~r.ok THEN JsonFail
         ELSE LET k == SkipWs(t, r.next) IN
              IF k > Len(t) THEN JsonFail
              ELSE IF t[k] = "]"
              THEN [ok |-> TRUE, value |-> Append(acc, r.value), next |-> k + 1]
              ELSE IF t[k] = COMMA
              THEN JsonParseItems(t, k + 1, Append(acc, r.value))
              ELSE JsonFail

\* json.loads of a cell: the list of an array of strings, or (ok = FALSE) the
\* JSONDecodeError of a text that is no JSON.  Arrays of strings are the
\* JSON that save_raw_ads writes.
JsonLoads(t) ==
    LET i == SkipWs(t, 1) IN
    IF i > Len(t) \/ t[i] # "[" THEN JsonFail
    ELSE LET j == SkipWs(t, i + 1)
             r == IF j <= Len(t) /\ t[j] = "]"
                  THEN [ok |-> TRUE, value |-> <<>>, next |-> j + 1]
                  ELSE JsonParseItems(t, j, <<>>)
         IN  IF r.ok /\ SkipWs(t, r.next) = Len(t) + 1
             THEN [ok |-> TRUE, value |-> r.value, next |-> 0]
             ELSE JsonFail

\* csv.writer, QUOTE_MINIMAL: a field holding the delimiter or the quote is
\* quoted and its quotes are doubled.
CsvField(text) ==
    IF \E i \in 1 .. Len(text) : text[i] \in {COMMA, QUOTE}
    THEN <<QUOTE>>
         \o Concat([i \in 1 .. Len(text) |->
                      IF text[i] = QUOTE THEN <<QUOTE, QUOTE>> ELSE <<text[i]>>])
         \o <<QUOTE>>
    ELSE text

CsvLine(fields) ==
    Join([i \in 1 .. Len(fields) |-> CsvField(fields[i])], <<COMMA>>)

CsvFail == [ok |-> FALSE, fields |-> <<>>]

\* The reader's pass over a line.  mode is "start" (a field begins),
\* "plain" (inside an unquoted field), "quoted" (inside a quoted field) or
\* "closed" (a quote was read inside a quoted field).
RECURSIVE CsvScan(_, _, _, _, _)
CsvScan(line, i, mode, cur, done) ==
    IF i > Len(line)
    THEN IF mode = "quoted" THEN CsvFail
         ELSE [ok |-> TRUE, fields |-> Append(done, cur)]
    ELSE LET c == line[i] IN
         CASE mode = "start" ->
                IF c = QUOTE THEN CsvScan(line, i + 1, "quoted", <<>>, done)
                ELSE IF c = COMMA
                THEN CsvScan(line, i + 1, "start", <<>>, Append(done, <<>>))
                ELSE CsvScan(line, i + 1, "plain", <<c>>, done)
           [] mode = "plain" ->
                IF c = COMMA
                THEN CsvScan(line, i + 1, "start", <<>>, Append(done, cur))
                ELSE CsvScan(line, i + 1, "plain", Append(cur, c), done)
           [] mode = "quoted" ->
                IF c = QUOTE THEN CsvScan(line, i + 1, "closed", cur, done)
                ELSE CsvScan(line, i + 1, "quoted", Append(cur, c), done)
           [] mode = "closed" ->
                IF c = QUOTE
                THEN CsvScan(line, i + 1, "quoted", Append(cur, QUOTE), done)
                ELSE IF c = COMMA
                THEN CsvScan(line, i + 1, "start", <<>>, Append(done, cur))
                ELSE CsvScan(line, i + 1, "plain", Append(cur, c), done)

\* pandas.read_csv on one line: its cells.
CsvSplit(line) == CsvScan(line, 1, "start", <<>>, <<>>)

\* The cells pandas reads as NaN.
NA_VALUES == {<<>>, <<"NA">>}


(***************************************************************************)
(* CSVDataManager.save_raw_ads / load_raw_ads  (utils/csv_data_manager.py) *)
(***************************************************************************)

\* The days date.today() takes.
DAYS == {0, 1}
\* The most raw-ad files the store holds.
MaxFiles == 2
PLATFORMS == {"binance", "okx"}
COLLECTION_IDS == {"c1", "c2"}

TextOf(word) == <<word>>
WordOf(text) ==
    IF text \in NA_VALUES THEN "NaN"
    ELSE IF Len(text) = 1 THEN text[1] ELSE "text"

\* Lines 178-182: the ad as save_raw_ads leaves it in the caller's list.
SavedAd(ad, collection_id) ==
    [ad EXCEPT !.collection_id = collection_id,
               !.payment_methods =
                   IF ad.payment_methods.kind = "list"
                   THEN PmStr(JsonDumps(ad.payment_methods.items))
                   ELSE ad.payment_methods]

\* What csv.DictWriter writes for a payment_methods value: the text itself,
\* nothing for None, the repr of a list.
PaymentMethodsCell(pm) ==
    CASE pm.kind = "str" -> pm.items[1]
      [] pm.kind = "none" -> <<>>
      [] pm.kind = "list" -> <<"repr">> \o Concat(pm.items)

\* Line 185 (_write_csv): the line of one ad.  premium_pct is None and is
\* written as an empty cell.
AdLine(ad) ==
    CsvLine(<<TextOf(ad.platform), TextOf(ad.trade_type), TextOf(ad.country_code),
              PaymentMethodsCell(ad.payment_methods), <<>>,
              TextOf(ad.collection_id)>>)
N_COLUMNS == 6

FileIndex(files, date, platform, country) ==
    {i \in 1 .. Len(files) :
        /\ files[i].date = date
        /\ files[i].platform = platform
        /\ files[i].country = country}

InsertAt(seq, pos, x) ==
    [i \in 1 .. Len(seq) + 1 |->
        IF i < pos THEN seq[i] ELSE IF i = pos THEN x ELSE seq[i - 1]]

\* Lines 169-185: the listings that writing the file of (date, platform,
\* country) can leave.  open(filepath, "w") truncates a file that exists; a
\* new file appears anywhere in the listing.  (A listing groups the files of
\* one date directory; every grouped order is among these.)
FilesAfterWriteMerges(files, date, platform, country, lines) ==
    LET at == FileIndex(files, date, platform, country)
    IN  IF at # {}
        THEN {[i \in 1 .. Len(files) |->
                  IF i \in at
                  THEN [files[i] EXCEPT !.lines = @ \o lines]
                  ELSE files[i]]}
        ELSE {InsertAt(files, pos,
                       [date |-> date, platform |-> platform,
                        country |-> country, lines |-> lines]) :
                 pos \in 1 .. Len(files) + 1}
FilesAfterWrite(files, date, platform, country, lines) ==
    LET file == [date |-> date, platform |-> platform, country |-> country,
                 lines |-> lines]
        at == FileIndex(files, date, platform, country)
    IN  IF at # {}
        THEN {[i \in 1 .. Len(files) |-> IF i \in at THEN file ELSE files[i]]}
        ELSE {InsertAt(files, pos, file) : pos \in 1 .. Len(files) + 1}

\* pandas.read_csv on a file, then lines 328-331: the rows of the file, or
\* (ok = FALSE) the exception that line 333 catches.  A line with more cells
\* than the header is a ParserError; missing cells read as NaN.
CellOrNaN(fields, k) == IF k <= Len(fields) THEN fields[k] ELSE <<>>

ReadRow(line) ==
    LET r == CsvSplit(line)
        cell == CellOrNaN(r.fields, 4)
        pm == IF cell \in NA_VALUES
              THEN [ok |-> TRUE, value |-> <<>>, next |-> 0]
              ELSE JsonLoads(cell)
    IN  IF ~r.ok \/ Len(r.fields) > N_COLUMNS \/ ~pm.ok
        THEN [ok |-> FALSE, row |-> <<>>]
        ELSE [ok |-> TRUE,
              row |-> [platform |-> WordOf(CellOrNaN(r.fields, 1)),
                       trade_type |-> WordOf(CellOrNaN(r.fields, 2)),
                       country_code |-> WordOf(CellOrNaN(r.fields, 3)),
                       payment_methods |-> pm.value,
                       premium_pct |-> WordOf(CellOrNaN(r.fields, 5)),
                       collection_id |-> WordOf(CellOrNaN(r.fields, 6))]]

ReadFile(file) ==
    LET rows == [i \in 1 .. Len(file.lines) |-> ReadRow(file.lines[i])]
    IN  IF \A i \in 1 .. Len(rows) : rows[i].ok
        THEN [ok |-> TRUE, rows |-> [i \in 1 .. Len(rows) |-> rows[i].row]]
        ELSE [ok |-> FALSE, rows |-> <<>>]

\* Lines 300-323: the file is read under the filters (None: no filter; for
\* date_str, -1 stands for None).
FileMatches(file, platform, country, date) ==
    /\ date = -1 \/ file.date = date
    /\ platform = "None" \/ file.platform = platform
    /\ country = "None" \/ file.country = country

\* Lines 309-342: the table load_raw_ads returns.
RECURSIVE LoadTable(_, _, _, _)
LoadTable(files, platform, country, date) ==
    IF files = <<>> THEN <<>>
    ELSE LET f == Head(files)
             rest == LoadTable(Tail(files), platform, country, date)
         IN  IF FileMatches(f, platform, country, date) /\ ReadFile(f).ok
             THEN ReadFile(f).rows \o rest
             ELSE rest

\* load_raw_ads opens the files for reading only.
RawFilesAfterLoadDropsUnreadable(files) ==
    SelectSeq(files, LAMBDA f : ReadFile(f).ok)
RawFilesAfterLoad(files) == files

StoreIdle ==
    /\ today_date = 0
    /\ raw_files = <<>>
    /\ collection_log = <<>>
    /\ sv_ads = <<>>
    /\ sv_orig = <<>>
    /\ ld_last = [kind |-> "none"]
    /\ ld_prev = [kind |-> "none"]

\* The variables no store operation touches.
notStoreVars == <<premVars, crisisVars, stdVars, collectVars, orchVars, profVars,
                  analysisVars>>

\* save_raw_ads(ads, platform, country_code, collection_id), lines 165-188:
\* what the call does to the store.
WriteRawAds(ads, platform, country, collection_id) ==
    LET saved == [i \in 1 .. Len(ads) |-> SavedAd(ads[i], collection_id)]
        lines == [i \in 1 .. Len(ads) |-> AdLine(saved[i])]
    IN  /\ \/ FileIndex(raw_files, today_date, platform, country) # {}
           \/ Len(raw_files) < MaxFiles
        /\ raw_files' \in
              FilesAfterWrite(raw_files, today_date, platform, country, lines)
        /\ sv_ads' = saved
        /\ sv_orig' = ads
        /\ ld_last' = [kind |-> "none"]
        /\ ld_prev' = [kind |-> "none"]
        /\ UNCHANGED today_date

SaveRawAds(ads, platform, country, collection_id) ==
    /\ WriteRawAds(ads, platform, country, collection_id)
    /\ UNCHANGED collection_log
    /\ UNCHANGED notStoreVars

\* load_raw_ads(platform, country_code, date_str), lines 300-342
LoadRawAds(platform, country, date) ==
    LET table == LoadTable(raw_files, platform, country, date)
        filters == <<platform, country, date>>
    IN  /\ ld_last' = [kind |-> "table", filters |-> filters, rows |-> table]
        /\ ld_prev' = IF ld_last.kind = "table" /\ ld_last.filters = filters
                      THEN [kind |-> "table", rows |-> ld_last.rows]
                      ELSE [kind |-> "none"]
        /\ raw_files' = RawFilesAfterLoad(raw_files)
        /\ UNCHANGED <<today_date, collection_log, sv_ads, sv_orig>>
        /\ UNCHANGED notStoreVars

\* Midnight passes.
NextDay ==
    /\ today_date + 1 \in DAYS
    /\ today_date' = today_date + 1
    /\ UNCHANGED <<raw_files, collection_log, sv_ads, sv_orig, ld_last, ld_prev>>
    /\ UNCHANGED notStoreVars

\* The ads an adapter hands to save_raw_ads: what its standardization makes
\* of the upstream's records.
StandardizedAds(platform, country, raws) ==
    [i \in 1 .. Len(raws) |->
        StandardizeOutcome(platform, raws[i], country, "BUY").ad]

RawWith(methods) == [type |-> "absent", methods |-> methods, numeric |-> "ok"]

\* The upstream records of the batches saved: Binance's tradeMethods give a
\* list; OKX's paymentMethodList is passed on as it is, a list, a bare text
\* or null.
StoreBatches(platform) ==
    LET l == RawWith(PmList(<< <<"a">> >>))
        t == RawWith(PmStr(<<"a">>))
        n == RawWith(PmNone)
    IN  IF platform = "binance"
        THEN {<<l>>, <<l, l>>}
        ELSE {<<l>>, <<t>>, <<n>>, <<l, t>>, <<n, l>>}

SaveSomeBatch ==
    \E platform \in PLATFORMS :
        \E raws \in StoreBatches(platform) :
            SaveRawAds(StandardizedAds(platform, "SD", raws),
                       platform, "SD", "c1")

LoadSome ==
    \E platform \in {"None", "okx"}, date \in {-1, 0} :
        LoadRawAds(platform, "None", date)

\* The characters of a payment-method label, and the lists of labels drawn
\* for the round trip: a list's size is the number of its labels plus the
\* number of their characters.
MaxListSize == 4
LABEL_CHARS == {"a", COMMA, QUOTE, BACKSLASH, SPACE}

LabelsUpTo(n) == UNION {[1 .. k -> LABEL_CHARS] : k \in 0 .. n}

RECURSIVE ListsOfSize(_)
ListsOfSize(n) ==
    {<<>>} \cup
    IF n <= 0 THEN {}
    ELSE UNION {{<<label>> \o rest : rest \in ListsOfSize(n - 1 - Len(label))} :
                  label \in LabelsUpTo(n - 1)}

\* One save of one Binance ad whose payment_methods is a drawn list, into the
\* empty store.
SaveOneList ==
    /\ raw_files = <<>>
    /\ \E items \in ListsOfSize(MaxListSize) :
          SaveRawAds(StandardizedAds("binance", "SD", <<RawWith(PmList(items))>>),
                     "binance", "SD", "c1")

(***************************************************************************)
(* collect_country_data  (scrapers/binance_p2p.py 150-238,                 *)
(*                        scrapers/platforms/okx_p2p.py 171-260)           *)
(* collect_historical_data (scrapers/platforms/paxful_historical.py)       *)
(*                                                                         *)
(* The locals of one call are a record: the position pc, the index of the  *)
(* trade type the outer loop is at, page, all_ads, the two counters, the   *)
(* collection id and the save_to_csv argument.  A page response is empty   *)
(* (a failed request, no "data", an empty list), a page of n well-formed   *)
(* ads, or a page with an ad whose numeric field makes float() / int()     *)
(* raise ValueError or TypeError.                                          *)
(***************************************************************************)

\* while page <= 5  (binance_p2p.py 187),  while page <= 3  (okx_p2p.py 210)
BINANCE_MAX_PAGES == 5
OKX_MAX_PAGES == 3

\* The most ads on one page.
MaxPageAds == 1

MaxPagesOfBinance(adapter) == BINANCE_MAX_PAGES
MaxPages(adapter) ==
    IF adapter = "binance" THEN BINANCE_MAX_PAGES ELSE OKX_MAX_PAGES

\* for trade_type in ["BUY", "SELL"]  /  for trade_type in ["buy", "sell"]
TradeTypes(adapter) ==
    IF adapter = "binance" THEN <<"BUY", "SELL">> ELSE <<"buy", "sell">>

\* if trade_type == "BUY"  /  if trade_type == "buy"
BuyLabel(adapter) == IF adapter = "binance" THEN "BUY" ELSE "buy"

\* get_profile_by_country_code finds a profile for the code.
KnownCountry(code) == code \in COUNTRY_CODES

EmptyPage == [kind |-> "empty", n |-> 0]
\* get_ads caught a RequestException and returned {} (binance_p2p.py
\* 96-102; okx_p2p.py 105-128, after every endpoint failed)
FailedPage == [kind |-> "failed", n |-> 0]
AdsPage(n) == [kind |-> "ads", n |-> n]
BadPage(exception) == [kind |-> exception, n |-> 0]

PageResponses ==
    {EmptyPage, FailedPage, BadPage("ValueError"), BadPage("TypeError")}
        \cup {AdsPage(n) : n \in 1 .. MaxPageAds}

\* The upstream record of a well-formed ad.
RawAd == RawWith(PmList(<< <<"a">> >>))

IdleLocals ==
    [pc |-> "idle", side |-> 1, page |-> 1, all_ads |-> <<>>,
     buy_count |-> 0, sell_count |-> 0, collection_id |-> "unset",
     save_to_csv |-> TRUE, trace |-> <<>>]

\* Lines 171-181: the profile lookup, whose ValueError line 236 catches, and
\* the locals before the loops.
StartLocals(country, collection_id, save_to_csv) ==
    [IdleLocals EXCEPT !.pc = IF KnownCountry(country) THEN "paging" ELSE "caught",
                       !.collection_id = collection_id,
                       !.save_to_csv = save_to_csv]

\* Lines 204-207: one ad is counted.
CountAdBuyOnly(loc, trade_type, buy_label) ==
    IF trade_type = buy_label
    THEN [loc EXCEPT !.buy_count = @ + 1]
    ELSE loc
CountAd(loc, trade_type, buy_label) ==
    IF trade_type = buy_label
    THEN [loc EXCEPT !.buy_count = @ + 1]
    ELSE [loc EXCEPT !.sell_count = @ + 1]

\* Lines 200-207: the n ads of a page are standardized, appended and counted.
RECURSIVE AddAds(_, _, _, _)
AddAds(adapter, country, loc, n) ==
    IF n = 0 THEN loc
    ELSE LET trade_type == TradeTypes(adapter)[loc.side]
             standardized ==
                 StandardizeOutcome(adapter, RawAd, country, trade_type).ad
             appended == [loc EXCEPT !.all_ads = Append(@, standardized)]
         IN  AddAds(adapter, country,
                    CountAd(appended, trade_type, BuyLabel(adapter)), n - 1)

\* The while loop of a trade type is left: the next trade type starts at
\* page 1, or both are done.
EndOfSideEndsCall(loc) == [loc EXCEPT !.pc = "saving"]
EndOfSide(loc) ==
    IF loc.side = 1
    THEN [loc EXCEPT !.side = 2, !.page = 1]
    ELSE [loc EXCEPT !.pc = "saving"]

\* What the call does towards the upstream, in order: a get_ads call for
\* a page of a trade type, with the kind of response it got, and a
\* time.sleep.
GetAds(side, page, response) ==
    [op |-> "get_ads", side |-> side, page |-> page,
     got |-> response.kind, n |-> response.n]
Sleep == [op |-> "sleep", side |-> 0, page |-> 0, got |-> "none", n |-> 0]

\* Lines 187-210: one pass of  while page <= 5  with the response it got:
\* the request, then break on a response without data, or the ads, page
\* += 1 and the sleep.
AfterPage(adapter, country, loc, response) ==
    LET asked == [loc EXCEPT
                     !.trace = Append(@, GetAds(loc.side, loc.page,
                                                response))]
    IN  CASE response.kind \in {"empty", "failed"} -> EndOfSide(asked)
          [] response.kind = "ValueError" -> [asked EXCEPT !.pc = "caught"]
          [] response.kind = "TypeError" -> [asked EXCEPT !.pc = "raised"]
          [] response.kind = "ads" ->
               LET added == AddAds(adapter, country, asked, response.n)
                   next == [added EXCEPT !.page = @ + 1,
                                         !.trace = Append(@, Sleep)]
               IN  IF next.page > MaxPages(adapter)
                   THEN EndOfSide(next)
                   ELSE next

\* The two loops run on the responses given; the upstream has nothing after
\* them.
RECURSIVE RunPages(_, _, _, _)
RunPages(adapter, country, loc, responses) ==
    IF loc.pc # "paging" THEN loc
    ELSE LET response == IF responses = <<>> THEN EmptyPage ELSE Head(responses)
             rest == IF responses = <<>> THEN <<>> ELSE Tail(responses)
         IN  \* the locals after the pass, then the passes that follow
             CHOOSE last \in {RunPages(adapter, country, after, rest) :
                                 after \in {AfterPage(adapter, country, loc,
                                                      response)}} : TRUE

\* if save_to_csv and all_ads
Saves(loc) == loc.pc = "saving" /\ loc.save_to_csv /\ loc.all_ads # <<>>

\* log_collection_run (csv_data_manager.py 232-244): the row appended.
CollectionRunOfBuys(platform, country, ads_collected, buy_ads, sell_ads, collection_id) ==
    [collection_id |-> collection_id,
     platform |-> platform,
     country_code |-> country,
     ads_collected |-> buy_ads,
     buy_ads |-> buy_ads,
     sell_ads |-> sell_ads,
     status |-> "success"]
CollectionRun(platform, country, ads_collected, buy_ads, sell_ads, collection_id) ==
    [collection_id |-> collection_id,
     platform |-> platform,
     country_code |-> country,
     ads_collected |-> ads_collected,
     buy_ads |-> buy_ads,
     sell_ads |-> sell_ads,
     status |-> "success"]

\* _append_csv (csv_data_manager.py 366-374): the file is opened in mode
\* "a" and the rows of data are written after the rows it holds.
AppendCsvTruncates(rows, data) == data
AppendCsv(rows, data) == rows \o data

\* _append_csv on metadata/collection_log.csv
LogCollectionRun(row) == collection_log' = AppendCsv(collection_log, <<row>>)

\* Lines 212-229: what the end of the call does to the store.
FinishStore(adapter, country, loc) ==
    IF Saves(loc)
    THEN /\ WriteRawAds(loc.all_ads, adapter, country, loc.collection_id)
         /\ LogCollectionRun(
                CollectionRun(adapter, country, Len(loc.all_ads),
                              loc.buy_count, loc.sell_count, loc.collection_id))
    ELSE UNCHANGED storeVars

\* Lines 231-238: what the call returns (all_ads is the list save_raw_ads
\* changed in place) or raises.
CollectResult(loc) ==
    CASE loc.pc = "raised" -> [kind |-> "raised", ads |-> <<>>]
      [] loc.pc = "caught" -> [kind |-> "returned", ads |-> <<>>]
      [] loc.pc = "saving" ->
           [kind |-> "returned",
            ads |-> IF Saves(loc)
                    THEN [i \in 1 .. Len(loc.all_ads) |->
                             SavedAd(loc.all_ads[i], loc.collection_id)]
                    ELSE loc.all_ads]

CollectIdle ==
    /\ co_adapter = "none"
    /\ co_country = "SD"
    /\ co_loc = IdleLocals
    /\ co_result = [kind |-> "none", ads |-> <<>>]
    /\ ac_pc = "idle"
    /\ ac_i = 1
    /\ ac_runs = <<>>
    /\ all_data = <<>>

notCollectVars == <<premVars, crisisVars, stdVars, orchVars, profVars,
                    analysisVars>>
oneCallVars == <<co_adapter, co_country, co_loc, co_result>>
allCountriesVars == <<ac_pc, ac_i, ac_runs, all_data>>

\* A collection is started while the log is empty: a collection appends at
\* most one row and reads none.
CollectStart ==
    /\ co_loc.pc \in {"idle", "done"}
    /\ collection_log = <<>>
    /\ \E adapter \in {"binance", "okx"}, country \in {"SD", "XX"},
          collection_id \in COLLECTION_IDS, save_to_csv \in BOOLEAN :
          /\ co_adapter' = adapter
          /\ co_country' = country
          /\ co_loc' = StartLocals(country, collection_id, save_to_csv)
    /\ co_result' = [kind |-> "none", ads |-> <<>>]
    /\ UNCHANGED <<storeVars, notCollectVars>>
    /\ UNCHANGED allCountriesVars

CollectPage ==
    /\ co_loc.pc = "paging"
    /\ \E response \in PageResponses :
          co_loc' = AfterPage(co_adapter, co_country, co_loc, response)
    /\ UNCHANGED <<co_adapter, co_country, co_result>>
    /\ UNCHANGED <<storeVars, notCollectVars>>
    /\ UNCHANGED allCountriesVars

CollectFinish ==
    /\ co_loc.pc \in {"saving", "caught", "raised"}
    /\ FinishStore(co_adapter, co_country, co_loc)
    /\ co_result' = CollectResult(co_loc)
    \* the record of the call's requests ends with the call
    /\ co_loc' = [co_loc EXCEPT !.pc = "done", !.trace = <<>>]
    /\ UNCHANGED <<co_adapter, co_country>>
    /\ UNCHANGED notCollectVars
    /\ UNCHANGED allCountriesVars

\* The offers the archived pages of a Paxful collection yield.
PaxfulOfferLists ==
    LET offer == [type : {"buy", "sell", "BUY", "absent"},
                  methods : {PmStr(<<"a">>)},
                  numeric : {"ok"}]
    IN  {<<>>} \cup {<<o>> : o \in offer} \cup {<<o, p>> : o \in offer, p \in offer}

CountTradeType(ads, trade_type) ==
    Cardinality({i \in 1 .. Len(ads) : ads[i].trade_type = trade_type})

\* collect_historical_data (paxful_historical.py 252-318): the offers of the
\* snapshots are saved and logged; an unknown country is caught at line 316.
CollectHistorical ==
    /\ co_loc.pc \in {"idle", "done"}
    /\ collection_log = <<>>
    /\ \E country \in {"SD", "XX"}, raws \in PaxfulOfferLists,
          collection_id \in COLLECTION_IDS :
          LET all_offers ==
                  IF KnownCountry(country)
                  THEN [i \in 1 .. Len(raws) |->
                           StandardizeOutcome("paxful", raws[i], country, "").ad]
                  ELSE <<>>
          IN  /\ co_adapter' = "paxful"
              /\ co_country' = country
              /\ co_loc' = [IdleLocals EXCEPT !.pc = "done"]
              /\ IF all_offers # <<>>
                 THEN /\ WriteRawAds(all_offers, "paxful", country, collection_id)
                      /\ LogCollectionRun(
                             CollectionRun("paxful", country, Len(all_offers),
                                           CountTradeType(all_offers, "BUY"),
                                           CountTradeType(all_offers, "SELL"),
                                           collection_id))
                      /\ co_result' =
                             [kind |-> "returned",
                              ads |-> [i \in 1 .. Len(all_offers) |->
                                          SavedAd(all_offers[i], collection_id)]]
                 ELSE /\ UNCHANGED storeVars
                      /\ co_result' = [kind |-> "returned", ads |-> <<>>]
    /\ UNCHANGED notCollectVars
    /\ UNCHANGED allCountriesVars

\* LocalBitcoinsScraper.collect_country_data (localbitcoins_public.py
\* 156-218): with ads, save_raw_ads(ads, filename) lacks an argument and
\* raises TypeError before anything is written or logged.
CollectLocalBitcoins ==
    /\ co_loc.pc \in {"idle", "done"}
    /\ \E country \in {"SD", "XX"}, has_ads \in BOOLEAN :
          /\ co_adapter' = "localbitcoins"
          /\ co_country' = country
          /\ co_result' = [kind |-> IF has_ads THEN "raised" ELSE "returned",
                           ads |-> <<>>]
    /\ co_loc' = [IdleLocals EXCEPT !.pc = "done"]
    /\ UNCHANGED <<storeVars, notCollectVars>>
    /\ UNCHANGED allCountriesVars

(***************************************************************************)
(* DataCollectionOrchestrator.collect_current_snapshot                     *)
(*                              (scrapers/data_orchestrator.py 137-220)    *)
(*                                                                         *)
(* self.scrapers holds the Binance adapter only, so a (platform, country)  *)
(* cell is a country of the list.                                          *)
(***************************************************************************)

\* The most countries in the argument.
MaxCountries == 3

\* [c["country_code"] for c in list_supported_countries()]
SUPPORTED_COUNTRIES == <<"SD", "VE">>

RECURSIVE SeqsUpTo(_, _)
SeqsUpTo(S, n) ==
    IF n = 0 THEN {<<>>}
    ELSE LET shorter == SeqsUpTo(S, n - 1)
         IN  shorter \cup {Append(q, x) : q \in shorter, x \in S}

CountryLists == SeqsUpTo(COUNTRY_CODES \cup {"XX"}, MaxCountries)

\* The page responses the upstream has for one cell: nothing, BUY ads only,
\* ads of both trade types, two pages of BUY ads, and a record that makes
\* float() raise on the first page or after a page of ads.
CellResponses ==
    {<<>>,
     <<AdsPage(1)>>,
     <<AdsPage(1), EmptyPage, AdsPage(MaxPageAds)>>,
     <<AdsPage(MaxPageAds), AdsPage(MaxPageAds)>>,
     <<BadPage("ValueError")>>,
     <<BadPage("TypeError")>>,
     <<AdsPage(1), BadPage("ValueError")>>,
     <<AdsPage(1), BadPage("TypeError")>>}

NewSummary ==
    [countries_processed |-> 0,
     total_ads_collected |-> 0,
     platform_stats |-> <<>>,
     errors |-> <<>>]

\* Lines 172-174 and 197-201: the except branch appends one entry.
AppendErrorDropped(summary, entry) == summary
AppendError(summary, entry) == [summary EXCEPT !.errors = Append(@, entry)]

OrchIdle ==
    /\ countries = <<>>
    /\ oc_pc = "idle"
    /\ oc_i = 1
    /\ platform_ads = 0
    /\ platform_countries = 0
    /\ collection_summary = NewSummary
    /\ oc_rates = "none"
    /\ oc_cells = <<>>

OrchInputs ==
    /\ countries \in CountryLists
    /\ oc_pc = "call"
    /\ oc_i = 1
    /\ platform_ads = 0
    /\ platform_countries = 0
    /\ collection_summary = NewSummary
    /\ oc_rates = "none"
    /\ oc_cells = <<>>

notOrchVars == <<premVars, stdVars, collectVars, profVars, analysisVars>>
crisisLocals == <<cr_known, cr_dates_ok, end_dt, today, fiat_every,
                  cr_pc, current_dt, requests, rates_data, cr_result>>

\* Lines 152-165
SnapshotStart ==
    /\ oc_pc = "call"
    /\ countries' = IF countries = <<>> THEN SUPPORTED_COUNTRIES ELSE countries
    /\ collection_summary' = NewSummary
    /\ oc_pc' = "rates"
    /\ UNCHANGED <<oc_i, platform_ads, platform_countries, oc_rates, oc_cells>>
    /\ UNCHANGED <<storeVars, crisisVars, notOrchVars>>

\* Lines 167-174: collect_all_current_rates appends the records it built to
\* the rate file, or raises.
SnapshotRates ==
    /\ oc_pc = "rates"
    /\ \E outcome \in {"ok", "raised"} :
          /\ oc_rates' = outcome
          /\ IF outcome = "ok"
             THEN /\ rate_log' = Append(rate_log, [source |-> "api_current"])
                  /\ UNCHANGED collection_summary
             ELSE /\ collection_summary' =
                         AppendError(collection_summary,
                                     [cell |-> 0, country_code |-> "rates"])
                  /\ UNCHANGED rate_log
    /\ oc_pc' = "cells"
    /\ platform_ads' = 0
    /\ platform_countries' = 0
    /\ UNCHANGED <<countries, oc_i, oc_cells>>
    /\ UNCHANGED <<storeVars, crisisLocals, notOrchVars>>

\* Lines 182-201: one pass of  for country_code in countries.
SnapshotCell ==
    /\ oc_pc = "cells"
    /\ oc_i <= Len(countries)
    /\ LET country_code == countries[oc_i]
           entry == [cell |-> oc_i, country_code |-> country_code]
       IN  IF ~KnownCountry(country_code)
           THEN /\ collection_summary' = AppendError(collection_summary, entry)
                /\ oc_cells' = Append(oc_cells, [kind |-> "raised", n |-> 0])
                /\ UNCHANGED <<platform_ads, platform_countries, storeVars>>
           ELSE \E responses \in CellResponses :
                   LET loc == RunPages("binance", country_code,
                                       StartLocals(country_code, "c1", TRUE),
                                       responses)
                       result == CollectResult(loc)
                   IN  /\ FinishStore("binance", country_code, loc)
                       /\ oc_cells' = Append(oc_cells,
                                             [kind |-> result.kind,
                                              n |-> Len(result.ads)])
                       /\ IF result.kind = "raised"
                          THEN /\ collection_summary' =
                                      AppendError(collection_summary, entry)
                               /\ UNCHANGED <<platform_ads, platform_countries>>
                          ELSE /\ platform_ads' = platform_ads + Len(result.ads)
                               /\ platform_countries' =
                                      IF result.ads # <<>>
                                      THEN platform_countries + 1
                                      ELSE platform_countries
                               /\ UNCHANGED collection_summary
    /\ oc_i' = oc_i + 1
    /\ UNCHANGED <<countries, oc_pc, oc_rates>>
    /\ UNCHANGED <<crisisVars, notOrchVars>>

\* Lines 203-220: the platform's totals and the number of countries are
\* entered and the summary is returned.
SnapshotFinish ==
    /\ oc_pc = "cells"
    /\ oc_i > Len(countries)
    /\ collection_summary' =
          [collection_summary EXCEPT
              !.platform_stats =
                  Append(@, [platform |-> "binance",
                             ads_collected |-> platform_ads,
                             countries_successful |-> platform_countries]),
              !.total_ads_collected = @ + platform_ads,
              !.countries_processed = Len(countries)]
    /\ oc_pc' = "done"
    /\ UNCHANGED <<countries, oc_i, platform_ads, platform_countries,
                   oc_rates, oc_cells>>
    /\ UNCHANGED <<storeVars, crisisVars, notOrchVars>>

\* DataCollectionOrchestrator.collect_comprehensive_snapshot
\* (data_orchestrator.py 99-135)
CONTEXT_APIS == {"coingecko", "cryptocompare"}

\* dict.get(key, default)
DictGet(d, key, default) == IF key \in DOMAIN d THEN d[key] ELSE default

CompIdle == results = [kind |-> "none"]

\* Lines 109-135, once collect_current_snapshot has returned p2p_results:
\* the totals are copied, each context API is asked and one that raises
\* leaves an entry in errors.
ComprehensiveFinish ==
    /\ oc_pc = "done"
    /\ results.kind = "none"
    /\ \E collected \in SUBSET CONTEXT_APIS :
          results' =
              [kind |-> "results",
               p2p_data |-> collection_summary,
               total_ads_collected |-> DictGet(collection_summary, "total_ads", 0),
               market_context |-> collected,
               errors |-> CONTEXT_APIS \ collected,
               exchange_rates |-> DictGet(collection_summary, "exchange_rates", {})]
    /\ UNCHANGED <<orchVars, storeVars, crisisVars, premVars, stdVars,
                   collectVars, profVars>>
    /\ UNCHANGED <<idVars, timelineVars, corrVars, fxVars, sumVars>>

(***************************************************************************)
(* get_profile_by_country_code / get_profile_by_country_name               *)
(*                                   (utils/country_profiles.py 89-164)    *)
(*                                                                         *)
(* A code, a name and a query are texts of characters.  The profile table  *)
(* is what load_profiles read from the configuration file.                 *)
(***************************************************************************)

\* The longest query drawn.
MaxQueryLen == 4

QUERY_CHARS == {"s", "S", "d", "D", SPACE}

\* str.upper() and str.lower() on one character
UpperChar(c) == CASE c = "s" -> "S" [] c = "d" -> "D" [] OTHER -> c
LowerChar(c) == CASE c = "S" -> "s" [] c = "D" -> "d" [] OTHER -> c

StrUpper(t) == [i \in 1 .. Len(t) |-> UpperChar(t[i])]
StrLower(t) == [i \in 1 .. Len(t) |-> LowerChar(t[i])]

\* str.strip()
RECURSIVE StrStripLeft(_)
StrStripLeft(t) ==
    IF t # <<>> /\ Head(t) = SPACE THEN StrStripLeft(Tail(t)) ELSE t

RECURSIVE StrStripRight(_)
StrStripRight(t) ==
    IF t # <<>> /\ t[Len(t)] = SPACE
    THEN StrStripRight(SubSeq(t, 1, Len(t) - 1))
    ELSE t

StrStripNothing(t) == t
StrStrip(t) == StrStripRight(StrStripLeft(t))

ProfileNotFound == [kind |-> "ValueError", profile |-> <<>>]

\* for profile in profiles: if <key of profile> == search: return profile
\* (keys holds the key of every profile, in the table's order)
FirstProfileOrEmpty(profiles, keys, search) ==
    LET hits == {i \in 1 .. Len(profiles) : keys[i] = search}
    IN  IF hits = {} THEN [kind |-> "profile", profile |-> <<>>]
        ELSE [kind |-> "profile",
              profile |-> profiles[CHOOSE i \in hits : \A j \in hits : i <= j]]
FirstProfile(profiles, keys, search) ==
    LET hits == {i \in 1 .. Len(profiles) : keys[i] = search}
    IN  IF hits = {} THEN ProfileNotFound
        ELSE [kind |-> "profile",
              profile |-> profiles[CHOOSE i \in hits : \A j \in hits : i <= j]]

\* Lines 120-125
LookupByCountryCode(profiles, country_code) ==
    LET search_code == StrUpper(StrStrip(country_code))
    IN  FirstProfile(profiles,
                     [i \in 1 .. Len(profiles) |-> StrUpper(profiles[i].country_code)],
                     search_code)

\* Lines 159-164
LookupByCountryName(profiles, name) ==
    LET search_name == StrLower(StrStrip(name))
    IN  FirstProfile(profiles,
                     [i \in 1 .. Len(profiles) |-> StrLower(profiles[i].name)],
                     search_name)

Profile(country_code, name, fiat) ==
    [country_code |-> country_code, name |-> name, fiat |-> fiat]

\* The tables load_profiles returns: codes are two letters and names are
\* trimmed, in the casing the file gives them; a file that is missing or
\* does not parse gives the empty table.
PROFILE_TABLES ==
    {<<>>,
     <<Profile(<<"S", "D">>, <<"S", "d", "d">>, "SDG"),
       Profile(<<"D", "S">>, <<"D", " ", "s">>, "DSG")>>,
     <<Profile(<<"s", "d">>, <<"s", "D">>, "SDG")>>,
     <<Profile(<<"S", "D">>, <<"S", "d">>, "SDG"),
       Profile(<<"s", "d">>, <<"S", "D">>, "SDX")>>}

Texts(n) == UNION {[1 .. k -> QUERY_CHARS] : k \in 0 .. n}

ProfIdle ==
    /\ pf_profiles = <<>>
    /\ pf_query = <<>>
    /\ pf_by = "none"
    /\ pf_pc = "idle"
    /\ pf_result = [kind |-> "none", profile |-> <<>>]

ProfInputs ==
    /\ pf_profiles \in PROFILE_TABLES
    /\ pf_query \in Texts(MaxQueryLen)
    /\ pf_by = "none"
    /\ pf_pc = "call"
    /\ pf_result = [kind |-> "none", profile |-> <<>>]

notProfVars == <<premVars, crisisVars, stdVars, storeVars, collectVars, orchVars,
                analysisVars>>

GetProfileByCountryCode ==
    /\ pf_pc = "call"
    /\ pf_by' = "code"
    /\ pf_result' = LookupByCountryCode(pf_profiles, pf_query)
    /\ pf_pc' = "done"
    /\ UNCHANGED <<pf_profiles, pf_query>>
    /\ UNCHANGED notProfVars

GetProfileByCountryName ==
    /\ pf_pc = "call"
    /\ pf_by' = "name"
    /\ pf_result' = LookupByCountryName(pf_profiles, pf_query)
    /\ pf_pc' = "done"
    /\ UNCHANGED <<pf_profiles, pf_query>>
    /\ UNCHANGED notProfVars

(***************************************************************************)
(* The two logs  (utils/csv_data_manager.py 190-278)                       *)
(*                                                                         *)
(* log_collection_run and save_exchange_rates called directly, in any      *)
(* order.  rate_log holds the rows of the exchange-rate files in the order *)
(* they were written; a row written here carries the day of the file       *)
(* rates_<today>.csv it went to.                                           *)
(***************************************************************************)

\* The most rows of the collection log and of the exchange-rate files.
MaxLogLen == 2
MaxRateRows == 3

\* The lists of rate records a caller passes to save_exchange_rates.
RateLists ==
    LET rate(fiat) == [fiat_currency |-> fiat, collection_id |-> "unset"]
    IN  {<<>>, <<rate("SDG")>>, <<rate("SDG"), rate("VES")>>}

\* if not collection_id: collection_id = self.generate_collection_id()
\* ("None" stands for the argument left out; the clock reads "c2")
CollectionIdOrNew(collection_id) ==
    IF collection_id = "None" THEN "c2" ELSE collection_id

\* log_collection_run(platform, ..., status, collection_id), lines 229-251
LogCollectionRunCall ==
    /\ Len(collection_log) < MaxLogLen
    /\ \E platform \in PLATFORMS, status \in {"success", "error"},
          collection_id \in {"c1", "None"} :
          LogCollectionRun(
              [CollectionRun(platform, "SD", 2, 1, 1,
                             CollectionIdOrNew(collection_id))
                  EXCEPT !.status = status])
    /\ UNCHANGED <<today_date, raw_files, sv_ads, sv_orig, ld_last, ld_prev>>
    /\ UNCHANGED notStoreVars

\* save_exchange_rates(rates, collection_id), lines 266-278
SaveExchangeRates ==
    /\ \E rates \in RateLists, collection_id \in {"c1", "None"} :
          /\ Len(rate_log) + Len(rates) <= MaxRateRows
          /\ rate_log' =
                AppendCsv(rate_log,
                          [i \in 1 .. Len(rates) |->
                              [fiat_currency |-> rates[i].fiat_currency,
                               collection_id |-> CollectionIdOrNew(collection_id),
                               file |-> today_date]])
    /\ UNCHANGED <<storeVars, crisisLocals>>
    /\ UNCHANGED <<premVars, stdVars, collectVars, orchVars, profVars,
                   analysisVars>>

(***************************************************************************)
(* BinanceP2PScraper.collect_all_countries (scrapers/binance_p2p.py        *)
(* 240-267)                                                                *)
(***************************************************************************)

\* What the upstream answers to the pages of one country: some of the
\* orchestrator's cases and cases with a request that failed.
AllCountriesResponses ==
    CellResponses
        \cup {<<FailedPage>>,
              <<FailedPage, AdsPage(1)>>,
              <<AdsPage(1), FailedPage, AdsPage(MaxPageAds)>>}

\* Lines 249-252
CollectAllStart ==
    /\ ac_pc = "idle"
    /\ raw_files = <<>>
    /\ collection_log = <<>>
    /\ ac_pc' = "loop"
    /\ ac_i' = 1
    /\ ac_runs' = <<>>
    /\ all_data' = <<>>
    /\ UNCHANGED <<oneCallVars, storeVars, notCollectVars>>

\* Lines 254-263: one pass of  for country in countries;
\* collect_country_data is called with its defaults (it saves), and what
\* it raises leaves the loop and the function.
CollectAllCountry ==
    /\ ac_pc = "loop"
    /\ ac_i <= Len(SUPPORTED_COUNTRIES)
    /\ \E responses \in AllCountriesResponses :
          LET country_code == SUPPORTED_COUNTRIES[ac_i]
              collection_id == IF ac_i = 1 THEN "c1" ELSE "c2"
              loc == RunPages("binance", country_code,
                              StartLocals(country_code, collection_id, TRUE),
                              responses)
              result == CollectResult(loc)
          IN  /\ FinishStore("binance", country_code, loc)
              /\ ac_runs' = Append(ac_runs,
                                   [country_code |-> country_code,
                                    trace |-> loc.trace,
                                    kind |-> result.kind,
                                    n |-> Len(result.ads)])
              /\ IF result.kind = "raised"
                 THEN /\ ac_pc' = "raised"
                      /\ UNCHANGED <<ac_i, all_data>>
                 ELSE /\ all_data' = all_data \o result.ads
                      /\ ac_i' = ac_i + 1
                      /\ UNCHANGED ac_pc
    /\ UNCHANGED <<oneCallVars, notCollectVars>>

\* Lines 265-267
CollectAllReturn ==
    /\ ac_pc = "loop"
    /\ ac_i > Len(SUPPORTED_COUNTRIES)
    /\ ac_pc' = "returned"
    /\ UNCHANGED <<ac_i, ac_runs, all_data>>
    /\ UNCHANGED <<oneCallVars, storeVars, notCollectVars>>

(***************************************************************************)
(* Collection ids                                                          *)
(* utils/csv_data_manager.py, generate_collection_id                       *)
(***************************************************************************)

\* The clock is read in steps of 1/ClockResolution of a second; it runs
\* for MaxClockSeconds seconds from a full hour, so that the date and
\* hour fields of every stamp are the same and a minute boundary is
\* crossed.
ClockResolution == 2
MaxClockSeconds == 61
MaxCalls == 2
SECONDS_PER_MINUTE == 60

DIGITS == <<"0", "1", "2", "3", "4", "5", "6", "7", "8", "9">>

\* strftime's zero-padded two-digit fields (%M, %S)
TwoDigits(n) == <<DIGITS[((n \div 10) % 10) + 1], DIGITS[(n % 10) + 1]>>

\* strftime("%Y%m%d_%H%M%S") of a clock reading: the fields below the hour
\* (the others are constant here); the fraction of the second is dropped.
StrfTime(t) ==
    LET seconds == t \div ClockResolution
    IN  TwoDigits(seconds \div SECONDS_PER_MINUTE)
            \o TwoDigits(seconds % SECONDS_PER_MINUTE)

\* f"collection_{...}"
CollectionId(t) == <<"collection_">> \o StrfTime(t)

IdIdle ==
    /\ clock = 0
    /\ generated_ids = <<>>

\* time passes
ClockTick ==
    /\ clock < MaxClockSeconds * ClockResolution
    /\ clock' = clock + 1
    /\ UNCHANGED generated_ids
    /\ UNCHANGED notIdVars

\* generate_collection_id(), line 137
GenerateCollectionId ==
    /\ Len(generated_ids) < MaxCalls
    /\ generated_ids' = Append(generated_ids, CollectionId(clock))
    /\ UNCHANGED clock
    /\ UNCHANGED notIdVars

(***************************************************************************)
(* The crisis timeline                                                     *)
(* crypto_analysis/analysis/crisis_timeline.py, CrisisTimelineManager      *)
(***************************************************************************)

MaxEvents == 3
MAX_PRIORITY == 5

\* The characters of a date string, in code-point order.
DATE_CHARS == <<"-">> \o DIGITS

CharRank(c) == CHOOSE i \in 1 .. Len(DATE_CHARS) : DATE_CHARS[i] = c

\* str < str: the first differing character decides, a proper prefix is
\* less
RECURSIVE StrLess(_, _)
StrLess(a, b) ==
    IF b = <<>> THEN FALSE
    ELSE IF a = <<>> THEN TRUE
    ELSE IF a[1] = b[1] THEN StrLess(Tail(a), Tail(b))
    ELSE CharRank(a[1]) < CharRank(b[1])

\* A date literal "YYYY-MM-DD".
Date(y, m, d) ==
    TwoDigits(y \div 100) \o TwoDigits(y % 100) \o <<"-">>
        \o TwoDigits(m) \o <<"-">> \o TwoDigits(d)

\* A CrisisEvent, lines 42-55: the fields the timeline queries read.
Event(date, priority) ==
    [date |-> date, data_collection_priority |-> priority]

\* _define_crisis_events, lines 67-346
CRISIS_EVENTS ==
    <<Event(Date(2019, 4, 11), 4),
      Event(Date(2019, 6, 3), 5),
      Event(Date(2021, 10, 25), 5),
      Event(Date(2023, 4, 15), 5),
      Event(Date(2021, 8, 15), 5),
      Event(Date(2021, 8, 17), 5),
      Event(Date(2021, 12, 22), 4),
      Event(Date(2019, 1, 23), 4),
      Event(Date(2019, 3, 7), 3),
      Event(Date(2020, 3, 26), 3),
      Event(Date(2021, 10, 1), 3),
      Event(Date(2021, 2, 5), 5),
      Event(Date(2021, 10, 20), 3),
      Event(Date(2023, 2, 1), 4),
      Event(Date(2019, 6, 1), 3),
      Event(Date(2020, 3, 1), 4),
      Event(Date(2020, 3, 30), 2),
      Event(Date(2019, 8, 12), 5),
      Event(Date(2019, 10, 27), 3),
      Event(Date(2020, 9, 1), 4),
      Event(Date(2022, 7, 2), 3)>>

\* key=lambda x: (x.data_collection_priority, x.date), line 386: tuples
\* compare by the first component, then by the second.
KeyLessIgnoresDate(a, b) ==
    a.data_collection_priority < b.data_collection_priority
KeyLess(a, b) ==
    \/ a.data_collection_priority < b.data_collection_priority
    \/ /\ a.data_collection_priority = b.data_collection_priority
       /\ StrLess(a.date, b.date)

\* One step of a stable descending sort: x goes behind every element that
\* is not less than it.
InsertReverse(sorted, x) ==
    LET k == Cardinality({i \in 1 .. Len(sorted) : ~KeyLess(sorted[i], x)})
    IN  SubSeq(sorted, 1, k) \o <<x>> \o SubSeq(sorted, k + 1, Len(sorted))

\* sorted(events, key=..., reverse=True), lines 384-388: descending by
\* key, elements of equal key in their original order.
RECURSIVE SortedReverse(_)
SortedReverse(events) ==
    IF events = <<>> THEN <<>>
    ELSE InsertReverse(SortedReverse(SubSeq(events, 1, Len(events) - 1)),
                       events[Len(events)])

\* get_priority_events(min_priority), lines 381-388
PriorityEvents(events, min) ==
    SortedReverse(SelectSeq(events,
                            LAMBDA e : e.data_collection_priority >= min))

\* The catalogs tried besides the module's own: short lists over a few
\* dates whose order as text differs from the order of their day and
\* month numbers read without padding.
EVENT_POOL ==
    {Event(d, p) : d \in {Date(2019, 2, 10), Date(2019, 10, 2),
                          Date(2021, 1, 1)},
                   p \in {3, 4, 5}}
Catalogs == {CRISIS_EVENTS} \cup SeqsUpTo(EVENT_POOL, MaxEvents)

TimelineIdle ==
    /\ crisis_events = <<>>
    /\ min_priority = 0
    /\ tl_pc = "idle"
    /\ tl_result = <<>>

TimelineInputs ==
    /\ crisis_events \in Catalogs
    /\ min_priority \in 1 .. MAX_PRIORITY
    /\ tl_pc = "call"
    /\ tl_result = <<>>

GetPriorityEvents ==
    /\ tl_pc = "call"
    /\ tl_result' = PriorityEvents(crisis_events, min_priority)
    /\ tl_pc' = "done"
    /\ UNCHANGED <<crisis_events, min_priority>>
    /\ UNCHANGED notTimelineVars

(***************************************************************************)
(* The crisis correlation step                                             *)
(* phase3_coordinator.py, analyze_crisis_correlations                      *)
(* comprehensive_analyzer.py, correlate_with_historical_data               *)
(***************************************************************************)

MaxCrisisEvents == 2
WINDOW_DAYS == 30
MIN_WINDOW_POINTS == 10

\* Numbers: exact fractions in lowest terms, NaN, None, and two forms
\* that stand for an irrational value by the fractions it is made of.
RECURSIVE GCD(_, _)
GCD(a, b) == IF b = 0 THEN a ELSE GCD(b, a % b)

NaN == [kind |-> "nan"]
None == [kind |-> "None"]
Rat(n, d) ==
    LET g == GCD(Abs(n), d)
    IN  [kind |-> "num", num |-> n \div g, den |-> d \div g]
Zero == Rat(0, 1)

RECURSIVE SumClose(_)
SumClose(rows) ==
    IF rows = <<>> THEN 0 ELSE rows[1].close + SumClose(Tail(rows))

RECURSIVE SumSquares(_)
SumSquares(rows) ==
    IF rows = <<>> THEN 0
    ELSE rows[1].close * rows[1].close + SumSquares(Tail(rows))

\* Series.mean() of a non-empty column
Mean(rows) == Rat(SumClose(rows), Len(rows))

\* Series.std(): the sample standard deviation (ddof = 1), NaN for fewer
\* than two values; the root of the variance
\*     (n * sum(x^2) - sum(x)^2) / (n * (n - 1)).
Std(rows) ==
    LET n == Len(rows)
        ss == n * SumSquares(rows) - SumClose(rows) * SumClose(rows)
    IN  IF n < 2 THEN NaN
        ELSE IF ss = 0 THEN Zero
        ELSE [kind |-> "sqrt", of |-> Rat(ss, n * (n - 1))]

\* ((to - from) / from) * 100 of two fractions, from # 0
PctChange(from, to) ==
    Rat((to.num * from.den - from.num * to.den) * 100, to.den * from.num)

\* ((post_vol - pre_vol) / pre_vol) * 100 if pre_vol > 0 else 0, line 201:
\* a comparison with NaN is false.
VolChange(pre_vol, post_vol) ==
    IF pre_vol.kind = "sqrt"
    THEN IF post_vol.kind = "nan" THEN NaN
         ELSE [kind |-> "pct_change", from |-> pre_vol, to |-> post_vol]
    ELSE Zero

\* The rows of the window of 30 days before and after the event.
Window(data, date) ==
    SelectSeq(data, LAMBDA r : /\ r.day >= date - WINDOW_DAYS
                               /\ r.day <= date + WINDOW_DAYS)
PreCrisis(window, date) == SelectSeq(window, LAMBDA r : r.day < date)
PostCrisisAfter(window, date) == SelectSeq(window, LAMBDA r : r.day > date)
PostCrisis(window, date) == SelectSeq(window, LAMBDA r : r.day >= date)

\* The dates of a frame.
Days(rows) == {rows[k].day : k \in 1 .. Len(rows)}

\* The window of a pass and, when the pass gets to them, its two subsets.
Split(data, date, splits) ==
    LET window_data == Window(data, date)
    IN  [date |-> date,
         window |-> Days(window_data),
         splits |-> splits,
         pre |-> IF splits THEN Days(PreCrisis(window_data, date)) ELSE {},
         post |-> IF splits THEN Days(PostCrisis(window_data, date)) ELSE {}]

\* if len(window_data) > 10, phase3_coordinator.py line 188
HasEnoughDataAlways(window) == TRUE
HasEnoughData(window) == Len(window) > MIN_WINDOW_POINTS

\* phase3_coordinator.py lines 188-225: what a pass that raises nothing
\* prints about its event
CrisisMessage(data, date) ==
    LET window_data == Window(data, date)
    IN  IF HasEnoughData(window_data)
        THEN IF /\ Len(PreCrisis(window_data, date)) > 0
                /\ Len(PostCrisis(window_data, date)) > 0
             THEN "price_change"
             ELSE "insufficient_data"
        ELSE "no_data"

\* phase3_coordinator.py lines 190-217: what such a pass adds to
\* crisis_analysis
CrisisResult(data, date) ==
    LET window_data == Window(data, date)
        pre_crisis == PreCrisis(window_data, date)
        post_crisis == PostCrisis(window_data, date)
    IN  IF CrisisMessage(data, date) = "price_change"
        THEN <<[date |-> date,
                pre_crisis_price |-> Mean(pre_crisis),
                post_crisis_price |-> Mean(post_crisis),
                price_change_pct |->
                    PctChange(Mean(pre_crisis), Mean(post_crisis)),
                pre_volatility |-> Std(pre_crisis),
                post_volatility |-> Std(post_crisis),
                volatility_change_pct |->
                    VolChange(Std(pre_crisis), Std(post_crisis)),
                data_points |-> Len(window_data)]>>
        ELSE <<>>

\* comprehensive_analyzer.py lines 231-281: the row of one event; the
\* instrument's two columns are missing when the window is empty and None
\* when one side of the event is.
EventAnalysis(data, date) ==
    LET period_data == Window(data, date)
        pre_crisis == PreCrisis(period_data, date)
        post_crisis == PostCrisis(period_data, date)
    IN  IF Len(period_data) > 0
        THEN IF Len(pre_crisis) > 0 /\ Len(post_crisis) > 0
             THEN [event_date |-> date,
                   columns |-> "set",
                   price_change_pct |->
                       PctChange(Rat(pre_crisis[Len(pre_crisis)].close, 1),
                                 Rat(post_crisis[1].close, 1)),
                   volatility |->
                       LET sd == Std(period_data)
                       IN  IF sd.kind = "sqrt"
                           THEN [kind |-> "pct_of", part |-> sd,
                                 whole |-> Mean(period_data)]
                           ELSE sd]
             ELSE [event_date |-> date, columns |-> "set",
                   price_change_pct |-> None, volatility |-> None]
        ELSE [event_date |-> date, columns |-> "missing",
              price_change_pct |-> None, volatility |-> None]

\* The price series tried: daily closes from a first day on, one run of a
\* price followed by at most one run of another.
FIRST_DAYS == {-32, -31, -2, -1, 0, 1}
RUN_LENGTHS == {1, 2, 10, 31, 32}
CLOSES == {100, 110}
EVENT_DAYS == {0, 40}

Rows(first, n1, p1, n2, p2) ==
    [k \in 1 .. (n1 + n2) |->
        [day |-> first + k - 1, close |-> IF k <= n1 THEN p1 ELSE p2]]

PriceSeries ==
    {Rows(first, n1, p1, n2, p2) :
        first \in FIRST_DAYS, n1 \in RUN_LENGTHS, p1 \in CLOSES,
        n2 \in RUN_LENGTHS \cup {0}, p2 \in CLOSES}

CorrIdle ==
    /\ btc_data = <<>>
    /\ an_events = <<>>
    /\ an_routine = "none"
    /\ an_i = 0
    /\ an_log = <<>>
    /\ an_split = <<>>
    /\ crisis_analysis = <<>>
    /\ correlations = <<>>

CorrInputs ==
    /\ btc_data \in PriceSeries
    /\ an_events \in SeqsUpTo(EVENT_DAYS, MaxCrisisEvents) \ {<<>>}
    /\ an_routine \in {"phase3", "comprehensive"}
    /\ an_i = 1
    /\ an_log = <<>>
    /\ an_split = <<>>
    /\ crisis_analysis = <<>>
    /\ correlations = <<>>


\* One pass of the loop of analyze_crisis_correlations, lines 168-227.
\* The body runs in a try block: an exception of the frame operations
\* (a time-zone-aware index compared with the naive crisis date, a frame
\* without a Close column) is printed and the loop goes on.
AnalyzeCrisisCorrelations ==
    /\ an_routine = "phase3"
    /\ an_i <= Len(an_events)
    /\ \E raised \in BOOLEAN :
          IF raised
          THEN /\ an_log' = Append(an_log, "error")
               /\ UNCHANGED <<crisis_analysis, an_split>>
          ELSE /\ an_log' =
                     Append(an_log, CrisisMessage(btc_data, an_events[an_i]))
               /\ an_split' =
                     Append(an_split,
                            Split(btc_data, an_events[an_i],
                                  HasEnoughData(Window(btc_data,
                                                       an_events[an_i]))))
               /\ crisis_analysis' =
                     crisis_analysis
                         \o CrisisResult(btc_data, an_events[an_i])
    /\ an_i' = an_i + 1
    /\ UNCHANGED <<btc_data, an_events, an_routine, correlations>>
    /\ UNCHANGED notCorrVars

\* One pass of the loop of correlate_with_historical_data, lines 231-282.
CorrelateWithHistoricalData ==
    /\ an_routine = "comprehensive"
    /\ an_i <= Len(an_events)
    /\ correlations' =
          Append(correlations, EventAnalysis(btc_data, an_events[an_i]))
    /\ an_log' = Append(an_log, "analyzed")
    /\ an_split' =
          Append(an_split,
                 Split(btc_data, an_events[an_i],
                       Len(Window(btc_data, an_events[an_i])) > 0))
    /\ an_i' = an_i + 1
    /\ UNCHANGED <<btc_data, an_events, an_routine, crisis_analysis>>
    /\ UNCHANGED notCorrVars

(***************************************************************************)
(* The fallback chain of the exchange-rate sources                         *)
(* utils/exchange_rates.py: get_current_rates, get_historical_rates,       *)
(* _fetch_from_source                                                      *)
(*                                                                         *)
(* A rate map is a set of [fiat, rate] entries with one entry a fiat.  A   *)
(* source answers a request with a JSON body whose "rates" is a rate map   *)
(* (empty when the body has none), or the request raises.                  *)
(***************************************************************************)

MaxUsdRate == 2
FIATS == {"SDG", "VES"}

RateMaps ==
    {m \in SUBSET [fiat : FIATS, rate : 1 .. MaxUsdRate] :
        \A a, b \in m : a.fiat = b.fiat => a = b}

Raises == [kind |-> "raises", rates |-> {}]
Json(rates) == [kind |-> "json", rates |-> rates]
Answers == {Raises} \cup {Json(m) : m \in RateMaps}

\* sources = ["exchangerate_api", "openexchangerates", "fixer"], line 95
CURRENT_SOURCES == <<"exchangerate_api", "openexchangerates", "fixer">>
\* historical_sources = ["openexchangerates", "fixer"], line 135
HISTORICAL_SOURCES == <<"openexchangerates", "fixer">>

\* _fetch_from_source sends a request for the source: openexchangerates
\* returns {} without one when there is no API key (lines 174-175).
CurrentRequest(source, has_key) ==
    ~(source = "openexchangerates" /\ ~has_key)

\* get_historical_rates sends a request for the source (lines 139-146):
\* openexchangerates with an API key, fixer with or without.
HistoricalRequestAlways(source, has_key) == TRUE
HistoricalRequest(source, has_key) ==
    \/ source = "openexchangerates" /\ has_key
    \/ source = "fixer"

\* if source_rates (line 102), if data.get("rates") (line 152)
AcceptedAlways(source_rates) == TRUE
Accepted(source_rates) == source_rates # {}

\* dict.update
Update(rates, other) ==
    {e \in rates : ~\E o \in other : o.fiat = e.fiat} \cup other

FxIdle ==
    /\ api_key = FALSE
    /\ upstream = <<>>
    /\ fx_call = "none"
    /\ fx_pc = "idle"
    /\ fx_i = 1
    /\ fx_queried = <<>>
    /\ fx_rates = {}

FxInputs ==
    /\ api_key \in BOOLEAN
    /\ upstream \in [{"exchangerate_api", "openexchangerates", "fixer"}
                        -> Answers]
    /\ fx_call \in {"current", "historical"}
    /\ fx_pc = "loop"
    /\ fx_i = 1
    /\ fx_queried = <<>>
    /\ fx_rates = {}

(***************************************************************************)
(* CSVDataManager.create_daily_summary  (utils/csv_data_manager.py)        *)
(***************************************************************************)

\* The most ads the loaded table holds and the highest price of an ad.
MaxLoadedAds == 3
MaxAdPrice == 2

\* The (platform, country_code, fiat) values of the loaded ads.  An ad that
\* was standardised without a fiat has an empty fiat cell in its file, which
\* pandas.read_csv reads as NaN.
AD_KEYS == {<<"binance", "SD", "SDG">>, <<"binance", "VE", "VES">>,
            <<"okx", "SD", "SDG">>, <<"binance", "SD", "NaN">>}

LoadedAds ==
    {[platform |-> key[1], country_code |-> key[2], fiat |-> key[3],
      trade_type |-> t, price |-> p] :
        key \in AD_KEYS, t \in {"BUY", "SELL"}, p \in 1 .. MaxAdPrice}

KeyOf(ad) == <<ad.platform, ad.country_code, ad.fiat>>

\* Lines 403-409: DataFrame.groupby yields the distinct keys in sorted
\* order and, with its default dropna=True, no key that has a NaN in it.
SORTED_KEYS == <<<<"binance", "SD", "SDG">>, <<"binance", "VE", "VES">>,
                 <<"okx", "SD", "SDG">>>>
GroupKeys(df) ==
    SelectSeq(SORTED_KEYS, LAMBDA key : \E k \in 1 .. Len(df) : KeyOf(df[k]) = key)
Group(df, key) == SelectSeq(df, LAMBDA ad : KeyOf(ad) = key)

RECURSIVE SumPrice(_)
SumPrice(ads) == IF ads = <<>> THEN 0 ELSE ads[1].price + SumPrice(Tail(ads))
MeanPrice(ads) == Rat(SumPrice(ads), Len(ads))
Minus(a, b) == Rat(a.num * b.den - b.num * a.den, a.den * b.den)

\* Lines 410-431: the row of one group.
Summary(key, group) ==
    LET buy_ads == SelectSeq(group, LAMBDA ad : ad.trade_type = "BUY")
        sell_ads == SelectSeq(group, LAMBDA ad : ad.trade_type = "SELL")
    IN  [platform |-> key[1],
         country_code |-> key[2],
         fiat_currency |-> key[3],
         total_ads |-> Len(group),
         buy_ads |-> Len(buy_ads),
         sell_ads |-> Len(sell_ads),
         avg_buy_price |-> IF buy_ads # <<>> THEN MeanPrice(buy_ads) ELSE Zero,
         avg_sell_price |-> IF sell_ads # <<>> THEN MeanPrice(sell_ads) ELSE Zero,
         price_spread |-> IF buy_ads # <<>> /\ sell_ads # <<>>
                          THEN Minus(MeanPrice(sell_ads), MeanPrice(buy_ads))
                          ELSE Zero]

SumIdle ==
    /\ sm_df = <<>>
    /\ sm_pc = "idle"
    /\ sm_file = [kind |-> "none"]

SumInputs ==
    /\ sm_df \in SeqsUpTo(LoadedAds, MaxLoadedAds)
    /\ sm_pc = "loaded"
    /\ sm_file = [kind |-> "none"]

\* create_daily_summary(date_str), lines 394-442, from the table on.
CreateDailySummary ==
    /\ sm_pc = "loaded"
    /\ sm_pc' = "done"
    /\ sm_file' =
          IF sm_df = <<>>
          THEN [kind |-> "none"]
          ELSE LET keys == GroupKeys(sm_df)
               IN  [kind |-> "file",
                    rows |-> [k \in 1 .. Len(keys) |->
                                 Summary(keys[k], Group(sm_df, keys[k]))]]
    /\ UNCHANGED sm_df
    /\ UNCHANGED notSumVars

AnalysisIdle ==
    IdIdle /\ TimelineIdle /\ CorrIdle /\ FxIdle /\ SumIdle /\ CompIdle

\* One pass of  for source in sources  of get_current_rates (lines 97-109)
\* with the _fetch_from_source call in it (lines 163-191).
GetCurrentRates ==
    /\ fx_call = "current"
    /\ fx_pc = "loop"
    /\ fx_i <= Len(CURRENT_SOURCES)
    /\ LET source == CURRENT_SOURCES[fx_i]
           asked == CurrentRequest(source, api_key)
           source_rates == IF asked THEN upstream[source].rates ELSE {}
       IN  /\ fx_queried' = IF asked THEN Append(fx_queried, source)
                            ELSE fx_queried
           /\ IF asked /\ upstream[source].kind = "raises"
              THEN /\ fx_i' = fx_i + 1
                   /\ UNCHANGED <<fx_rates, fx_pc>>
              ELSE IF Accepted(source_rates)
              THEN /\ fx_rates' = Update(fx_rates, source_rates)
                   /\ fx_pc' = "done"
                   /\ UNCHANGED fx_i
              ELSE /\ fx_i' = fx_i + 1
                   /\ UNCHANGED <<fx_rates, fx_pc>>
    /\ UNCHANGED <<api_key, upstream, fx_call>>
    /\ UNCHANGED notFxVars

\* One pass of  for source in historical_sources  of get_historical_rates
\* (lines 137-157).
GetHistoricalRates ==
    /\ fx_call = "historical"
    /\ fx_pc = "loop"
    /\ fx_i <= Len(HISTORICAL_SOURCES)
    /\ LET source == HISTORICAL_SOURCES[fx_i]
           asked == HistoricalRequest(source, api_key)
       IN  /\ fx_queried' = IF asked THEN Append(fx_queried, source)
                            ELSE fx_queried
           /\ IF /\ asked
                 /\ upstream[source].kind = "json"
                 /\ Accepted(upstream[source].rates)
              THEN /\ fx_rates' = upstream[source].rates
                   /\ fx_pc' = "done"
                   /\ UNCHANGED fx_i
              ELSE /\ fx_i' = fx_i + 1
                   /\ UNCHANGED <<fx_rates, fx_pc>>
    /\ UNCHANGED <<api_key, upstream, fx_call>>
    /\ UNCHANGED notFxVars

\* The loop is over: return rates (line 111), return {} (line 161).
GetRatesReturn ==
    /\ fx_pc = "loop"
    /\ fx_i > Len(IF fx_call = "current" THEN CURRENT_SOURCES
                  ELSE HISTORICAL_SOURCES)
    /\ fx_pc' = "done"
    /\ UNCHANGED <<api_key, upstream, fx_call, fx_i, fx_queried, fx_rates>>
    /\ UNCHANGED notFxVars

(***************************************************************************)
(* The specifications                                                      *)
(***************************************************************************)

InitPremium ==
    /\ PremiumInputs
    /\ CrisisIdle /\ StdIdle /\ StoreIdle /\ CollectIdle /\ OrchIdle /\ ProfIdle
    /\ AnalysisIdle
NextPremium == CalculatePremium
SpecPremium == InitPremium /\ [][NextPremium]_vars

InitCrisis ==
    /\ CrisisInputs
    /\ PremiumIdle /\ StdIdle /\ StoreIdle /\ CollectIdle /\ OrchIdle /\ ProfIdle
    /\ AnalysisIdle
NextCrisis == CrisisStart \/ CrisisSample \/ CrisisFinish
SpecCrisis == InitCrisis /\ [][NextCrisis]_vars

InitStd ==
    /\ StdInputs
    /\ PremiumIdle /\ CrisisIdle /\ StoreIdle /\ CollectIdle /\ OrchIdle /\ ProfIdle
    /\ AnalysisIdle
NextStd == Standardize
SpecStd == InitStd /\ [][NextStd]_vars

InitStore ==
    /\ StoreIdle
    /\ PremiumIdle /\ CrisisIdle /\ StdIdle /\ CollectIdle /\ OrchIdle /\ ProfIdle
    /\ AnalysisIdle
NextStore == SaveSomeBatch \/ LoadSome \/ NextDay
SpecStore == InitStore /\ [][NextStore]_vars

NextRoundTrip == SaveOneList \/ LoadSome
SpecRoundTrip == InitStore /\ [][NextRoundTrip]_vars

NextCollect ==
    \/ CollectStart
    \/ CollectPage
    \/ CollectFinish
    \/ CollectHistorical
    \/ CollectLocalBitcoins
SpecCollect == InitStore /\ [][NextCollect]_vars

NextAllCountries == CollectAllStart \/ CollectAllCountry \/ CollectAllReturn
SpecAllCountries == InitStore /\ [][NextAllCountries]_vars

InitOrch ==
    /\ OrchInputs
    /\ PremiumIdle /\ CrisisIdle /\ StdIdle /\ StoreIdle /\ CollectIdle /\ ProfIdle
    /\ AnalysisIdle
NextOrch == SnapshotStart \/ SnapshotRates \/ SnapshotCell \/ SnapshotFinish
SpecOrch == InitOrch /\ [][NextOrch]_vars
\* The call runs on: nothing in it waits for anything but the upstream's
\* answers, which arrive or time out.
FairSpecOrch == SpecOrch /\ WF_vars(NextOrch)

NextComprehensive == NextOrch \/ ComprehensiveFinish
SpecComprehensive == InitOrch /\ [][NextComprehensive]_vars

NextLogs == LogCollectionRunCall \/ SaveExchangeRates \/ NextDay
SpecLogs == InitStore /\ [][NextLogs]_vars

InitProfiles ==
    /\ ProfInputs
    /\ PremiumIdle /\ CrisisIdle /\ StdIdle /\ StoreIdle /\ CollectIdle /\ OrchIdle
    /\ AnalysisIdle
NextProfiles == GetProfileByCountryCode \/ GetProfileByCountryName
SpecProfiles == InitProfiles /\ [][NextProfiles]_vars

InitIds ==
    /\ IdIdle /\ TimelineIdle /\ CorrIdle /\ FxIdle /\ SumIdle
    /\ CompIdle
    /\ PremiumIdle /\ CrisisIdle /\ StdIdle /\ StoreIdle /\ CollectIdle
    /\ OrchIdle /\ ProfIdle
NextIds == ClockTick \/ GenerateCollectionId
SpecIds == InitIds /\ [][NextIds]_vars

InitTimeline ==
    /\ TimelineInputs /\ IdIdle /\ CorrIdle /\ FxIdle /\ SumIdle
    /\ CompIdle
    /\ PremiumIdle /\ CrisisIdle /\ StdIdle /\ StoreIdle /\ CollectIdle
    /\ OrchIdle /\ ProfIdle
NextTimeline == GetPriorityEvents
SpecTimeline == InitTimeline /\ [][NextTimeline]_vars

InitCorr ==
    /\ CorrInputs /\ IdIdle /\ TimelineIdle /\ FxIdle /\ SumIdle
    /\ CompIdle
    /\ PremiumIdle /\ CrisisIdle /\ StdIdle /\ StoreIdle /\ CollectIdle
    /\ OrchIdle /\ ProfIdle
NextCorr == AnalyzeCrisisCorrelations \/ CorrelateWithHistoricalData
SpecCorr == InitCorr /\ [][NextCorr]_vars

InitFx ==
    /\ FxInputs /\ IdIdle /\ TimelineIdle /\ CorrIdle /\ SumIdle
    /\ CompIdle
    /\ PremiumIdle /\ CrisisIdle /\ StdIdle /\ StoreIdle /\ CollectIdle
    /\ OrchIdle /\ ProfIdle
NextFx == GetCurrentRates \/ GetHistoricalRates \/ GetRatesReturn
SpecFx == InitFx /\ [][NextFx]_vars

InitSummary ==
    /\ SumInputs /\ IdIdle /\ TimelineIdle /\ CorrIdle /\ FxIdle
    /\ CompIdle
    /\ PremiumIdle /\ CrisisIdle /\ StdIdle /\ StoreIdle /\ CollectIdle
    /\ OrchIdle /\ ProfIdle
NextSummary == CreateDailySummary
SpecSummary == InitSummary /\ [][NextSummary]_vars

(***************************************************************************)
(* The claims                                                              *)
(***************************************************************************)

\* The i-th request of a range is for day (i - 1) * step.
EveryNthDay(step) ==
    \A i \in 1 .. Len(requests) : requests[i].day = (i - 1) * step

\* C8: collect_crisis_period_rates requests the rates of one date every 7
\* days when end - start is over 90 days and of every date when it is 90 days
\* or less (a 90-day range daily, a 91-day range weekly), from start_date up
\* to end_date inclusive; a 200-day range makes 29 requests and a 30-day
\* range 31.
C8_SamplingCadence ==
    /\ cr_pc \in {"loop", "done"} /\ cr_known /\ cr_dates_ok =>
          /\ end_dt > 90 => EveryNthDay(7)
          /\ end_dt <= 90 => EveryNthDay(1)
    /\ cr_pc = "done" /\ cr_known /\ cr_dates_ok /\ end_dt >= 0 =>
          /\ end_dt > 90 => Len(requests) = (end_dt \div 7) + 1
          /\ end_dt <= 90 => Len(requests) = end_dt + 1
          /\ end_dt = 90 => Len(requests) = 91
          /\ end_dt = 91 => Len(requests) = 14
          /\ end_dt = 200 => Len(requests) = 29
          /\ end_dt = 30 => Len(requests) = 31

C8_Witness ==
    /\ cr_pc = "done"
    /\ end_dt = 200
    /\ Len(requests) = 29
    /\ requests[29].day = 196

\* v (hundredths of a percent) is ((price / rate) - base) / base * 100 rounded
\* to 2 decimal places: no hundredth lies nearer to the exact quotient.
IsRounded2(v, price, rate, base) ==
    2 * Abs(v * rate * base - 10000 * (price - base * rate)) <= Abs(rate * base)

PremiumExampleCall ==
    /\ prem_pc = "done"
    /\ crypto_price = ExamplePrice
    /\ official_rate = ExampleRate
    /\ base_value = 1

\* C4 (as stated): calculate_premium(2900, 600, 1.0) returns 283.33, within
\* 0.01.
C4_Original ==
    PremiumExampleCall =>
        /\ premium_pct.kind = "returned"
        /\ Abs(premium_pct.value - 28333) <= 1

\* C4 (amended): calculate_premium(2900, 600, 1.0) returns 383.33, within
\* 0.01: 2900 / 600 is 4.8333, one less is 3.8333, times 100.
C4_ExampleIs383 ==
    PremiumExampleCall =>
        /\ premium_pct.kind = "returned"
        /\ Abs(premium_pct.value - 38333) <= 1

C4_Witness == PremiumExampleCall /\ premium_pct.kind = "returned"

\* C5 (as stated): for every price, official rate and base value
\* calculate_premium returns, 0.0 when official_rate == 0 and otherwise
\* ((price / official_rate) - base_value) / base_value * 100 rounded to 2
\* decimal places.
C5_Original ==
    prem_pc = "done" =>
        /\ premium_pct.kind = "returned"
        /\ official_rate = 0 => premium_pct.value = 0
        /\ official_rate # 0 =>
              IsRounded2(premium_pct.value, crypto_price, official_rate, base_value)

\* C5 (amended): calculate_premium returns 0.0 when official_rate == 0,
\* whatever the price and the base value; with official_rate # 0 it returns
\* the formula's value rounded to 2 decimal places when base_value # 0, and
\* raises ZeroDivisionError when base_value == 0.
C5_PremiumFormula ==
    prem_pc = "done" =>
        IF official_rate = 0
        THEN premium_pct = [kind |-> "returned", value |-> 0]
        ELSE IF base_value = 0
        THEN premium_pct.kind = "ZeroDivisionError"
        ELSE /\ premium_pct.kind = "returned"
             /\ IsRounded2(premium_pct.value, crypto_price, official_rate, base_value)

C5_Witness ==
    /\ prem_pc = "done"
    /\ official_rate = 0
    /\ crypto_price > 0
    /\ base_value = 1
    /\ premium_pct = [kind |-> "returned", value |-> 0]


\* C2 (as stated): every Advertisement produced by an adapter's
\* standardization, for any raw record and any side argument, has trade_type
\* in {BUY, SELL} and premium_pct null.
C2_Original ==
    st_pc = "done" /\ st_out.kind = "ad" =>
        /\ st_out.ad.trade_type \in {"BUY", "SELL"}
        /\ st_out.ad.premium_pct = "None"


\* The file the last load_raw_ads call read under its filters, in listing
\* order.
LoadedFiles ==
    SelectSeq(raw_files,
              LAMBDA f : FileMatches(f, ld_last.filters[1], ld_last.filters[2],
                                     ld_last.filters[3]))

RECURSIVE CountLines(_)
CountLines(files) ==
    IF files = <<>> THEN 0 ELSE Len(Head(files).lines) + CountLines(Tail(files))

\* C6: for every list of payment-method labels, the ad that save_raw_ads
\* wrote and load_raw_ads read back has payment_methods equal to the list
\* that was passed to save_raw_ads: the same labels in the same order.
C6_PaymentMethodsRoundTrip ==
    ld_last.kind = "table" /\ LoadedFiles # <<>> =>
        /\ Len(ld_last.rows) = Len(sv_orig)
        /\ \A i \in 1 .. Len(sv_orig) :
              /\ sv_orig[i].payment_methods.kind = "list"
              /\ ld_last.rows[i].payment_methods = sv_orig[i].payment_methods.items

C6_Witness ==
    /\ ld_last.kind = "table"
    /\ Len(ld_last.rows) = 1
    /\ ld_last.rows[1].payment_methods = << <<QUOTE>>, <<COMMA>> >>
    /\ sv_orig[1].payment_methods = PmList(<< <<QUOTE>>, <<COMMA>> >>)

\* C7 (as stated): a payment_methods cell that is missing or unparsable
\* decodes to an empty collection and no error results: load_raw_ads returns
\* every row of every file it read, and the rows of such cells carry an empty
\* collection.
C7_Original ==
    ld_last.kind = "table" =>
        /\ Len(ld_last.rows) = CountLines(LoadedFiles)
        /\ \A i \in 1 .. Len(ld_last.rows) :
              ld_last.rows[i].payment_methods \in {<<>>, << <<"a">> >>}

RaisedCells == {i \in 1 .. Len(oc_cells) : oc_cells[i].kind = "raised"}

RECURSIVE ReturnedAds(_)
ReturnedAds(cells) ==
    IF cells = <<>> THEN 0
    ELSE (IF Head(cells).kind = "returned" THEN Head(cells).n ELSE 0)
             + ReturnedAds(Tail(cells))

C1_SummaryOfRun ==
    oc_pc = "done" /\ oc_rates = "ok" =>
        /\ Len(oc_cells) = Len(countries)
        /\ collection_summary.countries_processed = Len(countries)
        /\ Len(collection_summary.errors) = Cardinality(RaisedCells)
        /\ \A i \in 1 .. Len(countries) :
              Cardinality({k \in 1 .. Len(collection_summary.errors) :
                              collection_summary.errors[k].cell = i})
                  = IF i \in RaisedCells THEN 1 ELSE 0
        /\ collection_summary.total_ads_collected = ReturnedAds(oc_cells)
        /\ collection_summary.platform_stats[1].countries_successful =
              Cardinality({i \in 1 .. Len(oc_cells) : oc_cells[i].n > 0})

\* C1: collect_current_snapshot over N countries always completes, and when
\* rate collection succeeded the summary it returns has countries_processed
\* equal to N and exactly one errors entry for every cell that raised and
\* none for any other; every cell that returned ads adds their number to
\* the collected total, whichever cells raised.
C1_OrchestratorResilience ==
    /\ []C1_SummaryOfRun
    /\ <>(oc_pc = "done")

C1_Witness ==
    /\ oc_pc = "done"
    /\ oc_rates = "ok"
    /\ Len(countries) = 3
    /\ oc_cells[1].kind = "returned" /\ oc_cells[1].n > 0
    /\ oc_cells[2].kind = "raised"
    /\ oc_cells[3].kind = "returned" /\ oc_cells[3].n > 0
    /\ Len(collection_summary.errors) = 1
    /\ collection_summary.total_ads_collected = oc_cells[1].n + oc_cells[3].n

\* C3: every row of the collection log has ads_collected equal to
\* buy_ads + sell_ads, whatever page responses the collection that
\* appended it received.
C3_LogRowsBalanced ==
    \A i \in 1 .. Len(collection_log) :
        collection_log[i].ads_collected =
            collection_log[i].buy_ads + collection_log[i].sell_ads

C3_Witness ==
    \E i \in 1 .. Len(collection_log) :
        /\ collection_log[i].platform = "okx"
        /\ collection_log[i].buy_ads = 2
        /\ collection_log[i].sell_ads = 3
        /\ collection_log[i].ads_collected = 5

\* A casing and leading/trailing-whitespace variant of a text: blanks, then
\* the text with any of its letters in either case, then blanks.
Blanks(n) == [i \in 1 .. n |-> SPACE]

SameLetters(a, b) ==
    /\ Len(a) = Len(b)
    /\ \A i \in 1 .. Len(a) : b[i] \in {UpperChar(a[i]), LowerChar(a[i])}

IsVariant(q, text) ==
    \E l \in 0 .. Len(q) :
        LET r == Len(q) - Len(text) - l
        IN  /\ r >= 0
            /\ SubSeq(q, 1, l) = Blanks(l)
            /\ SameLetters(text, SubSeq(q, l + 1, l + Len(text)))
            /\ SubSeq(q, l + Len(text) + 1, Len(q)) = Blanks(r)

\* C10: for every profile of the table, get_profile_by_country_code called
\* with any casing and leading/trailing-whitespace variant of the profile's
\* code returns a profile, the one it returns for the code itself, and
\* get_profile_by_country_name does the same with the profile's name.
C10_LookupIgnoresCaseAndBlanks ==
    pf_pc = "done" =>
        \A i \in 1 .. Len(pf_profiles) :
            /\ pf_by = "code" /\ IsVariant(pf_query, pf_profiles[i].country_code) =>
                  /\ pf_result.kind = "profile"
                  /\ pf_result.profile.country_code \in
                        {StrUpper(pf_profiles[i].country_code),
                         StrLower(pf_profiles[i].country_code)}
                  /\ pf_result =
                        LookupByCountryCode(pf_profiles, pf_profiles[i].country_code)
            /\ pf_by = "name" /\ IsVariant(pf_query, pf_profiles[i].name) =>
                  /\ pf_result.kind = "profile"
                  /\ pf_result = LookupByCountryName(pf_profiles, pf_profiles[i].name)

C10_Witness ==
    /\ pf_pc = "done"
    /\ pf_by = "code"
    /\ pf_query = <<SPACE, "S", "d", SPACE>>
    /\ Len(pf_profiles) = 2
    /\ pf_profiles[1].country_code = <<"S", "D">>
    /\ pf_result.kind = "profile"
    /\ pf_result.profile = pf_profiles[1]


\* The query of the lookup made matches no profile of the table: it is a
\* variant of no profile's code (lookup by code) or name (lookup by name).
MatchesNoProfile ==
    \A i \in 1 .. Len(pf_profiles) :
        /\ pf_by = "code" => ~IsVariant(pf_query, pf_profiles[i].country_code)
        /\ pf_by = "name" => ~IsVariant(pf_query, pf_profiles[i].name)

UnmappedSide ==
    \/ st_adapter = "okx" /\ Lower(st_side) \notin {"buy", "sell"}
    \/ st_adapter = "paxful" /\ Lower(st_raw.type) \notin {"buy", "sell"}

\* C12 (as stated): standardizing a record whose side value is not one of
\* the spellings mapped for its upstream is an error: the record is rejected
\* and no Advertisement with a guessed BUY or SELL is produced.
C12_Original ==
    st_pc = "done" /\ UnmappedSide => st_out.kind # "ad"


\* C13 (as stated): save_raw_ads changes no field of the ads passed to it
\* other than collection_id and premium_pct: after the call every ad of the
\* caller's list has the platform, trade_type, country_code and
\* payment_methods it was passed in with.
C13_Original ==
    /\ Len(sv_ads) = Len(sv_orig)
    /\ \A i \in 1 .. Len(sv_orig) :
          /\ sv_ads[i].platform = sv_orig[i].platform
          /\ sv_ads[i].trade_type = sv_orig[i].trade_type
          /\ sv_ads[i].country_code = sv_orig[i].country_code
          /\ sv_ads[i].payment_methods = sv_orig[i].payment_methods


\* C14 (as stated): every collection attempt appends exactly one row to the
\* collection log, whatever its outcome.  A collection is started on an
\* empty log only, so once an attempt has ended the log holds the one row of
\* the one attempt that appended.
C14_Original ==
    co_loc.pc = "done" => Len(collection_log) = 1


IsPrefix(a, b) == Len(a) <= Len(b) /\ SubSeq(b, 1, Len(a)) = a

\* C15: the collection log and the exchange-rate log are append-only: every
\* step of any sequence of log_collection_run and save_exchange_rates calls
\* leaves the rows written earlier present, unchanged and in their
\* positions, and adds rows at the end only; log_collection_run adds
\* exactly one row.
C15_LogsAppendOnly ==
    [][/\ IsPrefix(collection_log, collection_log')
       /\ IsPrefix(rate_log, rate_log')
       /\ collection_log' # collection_log =>
             Len(collection_log') = Len(collection_log) + 1]_vars

C15_Witness ==
    /\ Len(collection_log) = 2
    /\ collection_log[1].status # collection_log[2].status
    /\ Len(rate_log) = 3
    /\ rate_log[1].file = 0
    /\ rate_log[2].file = 1
    /\ rate_log[1].collection_id # rate_log[2].collection_id


\* The files of a listing other than the file of (date, platform, country).
OtherFiles(files, date, platform, country) ==
    SelectSeq(files, LAMBDA f : ~(/\ f.date = date
                                  /\ f.platform = platform
                                  /\ f.country = country))

\* C16: a save_raw_ads call that changes the store leaves exactly one file
\* for (day of the call, platform, country); the file holds exactly the
\* ads of this call, one line each, whether or not a file of the triple
\* existed before; the files of all other triples are as they were, and no
\* triple has two files.
C16_OneFilePerPartition ==
    [][raw_files' # raw_files =>
          LET platform == sv_orig'[1].platform
              country == sv_orig'[1].country_code
              at == FileIndex(raw_files', today_date, platform, country)
          IN  /\ Cardinality(at) = 1
              /\ \A i \in at :
                    raw_files'[i].lines =
                        [k \in 1 .. Len(sv_orig') |-> AdLine(sv_ads'[k])]
              /\ OtherFiles(raw_files', today_date, platform, country)
                    = OtherFiles(raw_files, today_date, platform, country)
              /\ \A i, j \in 1 .. Len(raw_files') :
                    /\ raw_files'[i].date = raw_files'[j].date
                    /\ raw_files'[i].platform = raw_files'[j].platform
                    /\ raw_files'[i].country = raw_files'[j].country
                    => i = j]_vars

C16_Witness ==
    /\ today_date = 1
    /\ Len(raw_files) = 2
    /\ Len(sv_orig) = 1
    /\ sv_orig[1].platform = "okx"
    /\ \E i, j \in 1 .. Len(raw_files) :
          /\ raw_files[i].platform = "okx"
          /\ raw_files[i].date = 1
          /\ raw_files[i].lines = <<AdLine(sv_ads[1])>>
          /\ raw_files[j].platform = "okx"
          /\ raw_files[j].date = 0
          /\ Len(raw_files[j].lines) = 2


\* C17: any two generate_collection_id calls return different values.
C17_Original ==
    \A i, j \in 1 .. Len(generated_ids) :
        i # j => generated_ids[i] # generated_ids[j]


\* How often an event occurs in a list.
CountEvent(events, e) ==
    Cardinality({i \in 1 .. Len(events) : events[i] = e})

\* C18: get_priority_events(min_priority) returns exactly the catalog's
\* events of priority >= min_priority, each as often as the catalog has
\* it, in descending order of priority and, among events of one priority,
\* in descending order of date.
C18_PriorityEventsSorted ==
    tl_pc = "done" =>
        /\ \A i \in 1 .. Len(tl_result) :
              CountEvent(tl_result, tl_result[i])
                  = CountEvent(crisis_events, tl_result[i])
        /\ \A i \in 1 .. Len(crisis_events) :
              CountEvent(tl_result, crisis_events[i]) =
                  IF crisis_events[i].data_collection_priority >= min_priority
                  THEN CountEvent(crisis_events, crisis_events[i])
                  ELSE 0
        /\ \A i, j \in 1 .. Len(tl_result) :
              i < j =>
                 \/ tl_result[i].data_collection_priority
                        > tl_result[j].data_collection_priority
                 \/ /\ tl_result[i].data_collection_priority
                          = tl_result[j].data_collection_priority
                    /\ ~StrLess(tl_result[i].date, tl_result[j].date)

\* A call that drops an event and has to reorder two events of one
\* priority that the catalog lists in ascending date order.
C18_Witness ==
    /\ tl_pc = "done"
    /\ Len(crisis_events) = 3
    /\ Len(tl_result) = 2
    /\ crisis_events[1].data_collection_priority = 4
    /\ crisis_events[2].data_collection_priority = 3
    /\ crisis_events[3].data_collection_priority = 4
    /\ crisis_events[1].date = Date(2019, 2, 10)
    /\ crisis_events[3].date = Date(2019, 10, 2)
    /\ tl_result[1] = crisis_events[3]


\* The closes of the window before the event, and from the event on.
ClosesBefore(date) ==
    {btc_data[k].close : k \in {k \in 1 .. Len(btc_data) :
        /\ btc_data[k].day >= date - WINDOW_DAYS
        /\ btc_data[k].day < date}}
ClosesFrom(date) ==
    {btc_data[k].close : k \in {k \in 1 .. Len(btc_data) :
        /\ btc_data[k].day >= date
        /\ btc_data[k].day <= date + WINDOW_DAYS}}

\* C19: a result for an event within a series constant at a before the
\* event and constant at b from it on has price_change_pct equal to
\* (b - a) / a * 100 and pre_volatility, post_volatility and
\* volatility_change_pct equal to 0.
C19_Original ==
    \A i \in 1 .. Len(crisis_analysis) :
        LET row == crisis_analysis[i]
        IN  \A a \in ClosesBefore(row.date), b \in ClosesFrom(row.date) :
                /\ ClosesBefore(row.date) = {a}
                /\ ClosesFrom(row.date) = {b}
                => /\ row.price_change_pct = Rat((b - a) * 100, a)
                   /\ row.pre_volatility = Zero
                   /\ row.post_volatility = Zero
                   /\ row.volatility_change_pct = Zero


\* How many prices the window of an event holds.
WindowPoints(date) ==
    Cardinality({k \in 1 .. Len(btc_data) :
        /\ btc_data[k].day >= date - WINDOW_DAYS
        /\ btc_data[k].day <= date + WINDOW_DAYS})

BothSidesHavePrices(date) ==
    ClosesBefore(date) # {} /\ ClosesFrom(date) # {}

\* The events of the passes made so far that ended with the given message.
EventsWith(message) ==
    LET at == {k \in 1 .. Len(an_log) : an_log[k] = message}
        RECURSIVE Pick(_)
        Pick(k) == IF k > Len(an_log) THEN <<>>
                   ELSE (IF k \in at THEN <<an_events[k]>> ELSE <<>>)
                            \o Pick(k + 1)
    IN  Pick(1)

\* The pair of the k-th pass got a result.
HasResult(k) ==
    IF an_routine = "phase3"
    THEN an_log[k] = "price_change"
    ELSE correlations[k].price_change_pct.kind = "num"

\* C20 as stated: of the passes that raise nothing, a pair with an empty
\* side gets no result and a pair with prices on both sides gets one.
C20_Original ==
    \A k \in 1 .. Len(an_log) :
        an_log[k] # "error" =>
            (HasResult(k) <=> BothSidesHavePrices(an_events[k]))

\* C20, amended: every pass ends and the loop moves on to the next event.
\* In analyze_crisis_correlations a pass that raises nothing yields a
\* result row exactly when the window holds more than 10 prices and both
\* sides of the event have prices; the rows are those of the passes that
\* reported a result, in order. In correlate_with_historical_data every
\* event gets a row, whose price change is a number exactly when both
\* sides of the event have prices.
C20_SkipsAndContinues ==
    /\ Len(an_log) = an_i - 1 \/ an_routine = "none"
    /\ an_routine = "phase3" =>
          /\ \A k \in 1 .. Len(an_log) :
                an_log[k] # "error" =>
                   (an_log[k] = "price_change" <=>
                       /\ WindowPoints(an_events[k]) > MIN_WINDOW_POINTS
                       /\ BothSidesHavePrices(an_events[k]))
          /\ [k \in 1 .. Len(crisis_analysis) |-> crisis_analysis[k].date]
                = EventsWith("price_change")
    /\ an_routine = "comprehensive" =>
          /\ Len(correlations) = Len(an_log)
          /\ \A k \in 1 .. Len(correlations) :
                /\ correlations[k].event_date = an_events[k]
                /\ correlations[k].price_change_pct.kind = "num"
                      <=> BothSidesHavePrices(an_events[k])

\* A run that skipped its first event for want of prices before it and
\* went on to give the second a result.
C20_Witness ==
    /\ an_routine = "phase3"
    /\ an_events = <<0, 40>>
    /\ an_log = <<"insufficient_data", "price_change">>
    /\ Len(crisis_analysis) = 1
    /\ crisis_analysis[1].date = 40


\* The get_ads calls of the collection, in order.
PageRequests == SelectSeq(co_loc.trace, LAMBDA e : e.op = "get_ads")

\* C21: per trade type the pages are requested in the order 1, 2, ...; a
\* page is requested only after the page before it returned records; the
\* Binance adapter requests at most 5 pages of a trade type and the OKX
\* adapter at most 3; a trade type that was left is not returned to.
C21_Pagination ==
    \A i \in 1 .. Len(PageRequests) :
        LET r == PageRequests[i]
        IN  /\ r.page >= 1
            /\ co_adapter = "binance" => r.page <= BINANCE_MAX_PAGES
            /\ co_adapter = "okx" => r.page <= OKX_MAX_PAGES
            /\ IF i = 1
               THEN r.side = 1 /\ r.page = 1
               ELSE LET q == PageRequests[i - 1]
                    IN  \/ /\ r.side = q.side
                           /\ r.page = q.page + 1
                           /\ q.got = "ads"
                        \/ /\ r.side = q.side + 1
                           /\ r.page = 1

\* The OKX adapter got records on every page of the first trade type and
\* went on to the second after the third page.
C21_Witness ==
    /\ co_adapter = "okx"
    /\ Len(PageRequests) = OKX_MAX_PAGES + 2
    /\ \A i \in 1 .. OKX_MAX_PAGES :
          PageRequests[i] = GetAds(1, i, AdsPage(1))
    /\ PageRequests[OKX_MAX_PAGES + 1] = GetAds(2, 1, AdsPage(1))
    /\ PageRequests[OKX_MAX_PAGES + 2] = GetAds(2, 2, FailedPage)

\* C22: between every two consecutive requests of a collection there is a
\* sleep.
C22_Original ==
    \A i \in 1 .. Len(co_loc.trace) - 1 :
        ~(co_loc.trace[i].op = "get_ads" /\ co_loc.trace[i + 1].op = "get_ads")


\* The get_ads calls of the k-th country of collect_all_countries.
RequestsOf(k) == SelectSeq(ac_runs[k].trace, LAMBDA e : e.op = "get_ads")

RECURSIVE RecordsIn(_)
RecordsIn(requests_made) ==
    IF requests_made = <<>> THEN 0
    ELSE (IF Head(requests_made).got = "ads" THEN Head(requests_made).n ELSE 0)
             + RecordsIn(Tail(requests_made))

Malformed(k) ==
    \E i \in 1 .. Len(RequestsOf(k)) :
        RequestsOf(k)[i].got \in {"ValueError", "TypeError"}

\* C23: a page request that fails on the first trade type of a country is
\* followed by the request of page 1 of the second; a country whose pages
\* held no malformed record returns, with every record of its pages, so
\* with none when all its requests failed; a failed request never makes
\* collect_country_data raise, the loop over the countries goes on after
\* it, and all_data holds the ads of all countries.
C23_FailureIsLocal ==
    /\ \A k \in 1 .. Len(ac_runs) :
          /\ \A i \in 1 .. Len(RequestsOf(k)) :
                RequestsOf(k)[i].got = "failed" /\ RequestsOf(k)[i].side = 1
                   => /\ i < Len(RequestsOf(k))
                      /\ RequestsOf(k)[i + 1].side = 2
                      /\ RequestsOf(k)[i + 1].page = 1
          /\ ~Malformed(k) =>
                /\ ac_runs[k].kind = "returned"
                /\ ac_runs[k].n = RecordsIn(RequestsOf(k))
          /\ ac_runs[k].kind = "raised" =>
                RequestsOf(k)[Len(RequestsOf(k))].got = "TypeError"
    /\ ac_pc = "raised" => Malformed(Len(ac_runs))
    /\ (\A k \in 1 .. Len(ac_runs) : ~Malformed(k)) =>
          /\ ac_i = Len(ac_runs) + 1
          /\ Len(all_data) =
                (IF Len(ac_runs) > 0 THEN RecordsIn(RequestsOf(1)) ELSE 0)
                   + (IF Len(ac_runs) > 1 THEN RecordsIn(RequestsOf(2)) ELSE 0)
    /\ ac_pc = "returned" => Len(ac_runs) = Len(SUPPORTED_COUNTRIES)

\* The first country lost a request after a page of records and still got
\* the other trade type; every request of the second failed.
C23_Witness ==
    /\ ac_pc = "returned"
    /\ Len(ac_runs) = 2
    /\ Len(RequestsOf(1)) = 4
    /\ RequestsOf(1)[1] = GetAds(1, 1, AdsPage(1))
    /\ RequestsOf(1)[2] = GetAds(1, 2, FailedPage)
    /\ RequestsOf(1)[3].side = 2
    /\ RequestsOf(1)[3].got = "ads"
    /\ RequestsOf(2)[1].got = "failed"
    /\ ac_runs[2].n = 0
    /\ Len(all_data) = ac_runs[1].n
    /\ Len(all_data) >= 2


\* The sampled days so far on which the upstream lists the fiat.
RECURSIVE DaysWithFiat(_)
DaysWithFiat(sampled) ==
    IF sampled = <<>> THEN <<>>
    ELSE (IF fiat_every # 0 /\ Head(sampled).day % fiat_every = 0
          THEN <<Head(sampled).day>> ELSE <<>>)
             \o DaysWithFiat(Tail(sampled))

\* C25: the series holds one record for every sampled date whose rates
\* list the fiat and none for the others, in the order of the dates, each
\* with the rate of its own date; the loop goes on after a date without
\* the fiat, and the series is what the call returns.
C25_GappedSeries ==
    /\ [i \in 1 .. Len(rates_data) |-> rates_data[i].day]
          = DaysWithFiat(requests)
    /\ \A i \in 1 .. Len(rates_data) :
          /\ rates_data[i].usd_rate = rates_data[i].day + 1
          /\ i > 1 => rates_data[i - 1].day < rates_data[i].day
    /\ cr_pc = "loop" =>
          Len(requests) = (current_dt \div DaysToAdd(end_dt))
    /\ cr_pc = "done" /\ cr_known /\ cr_dates_ok => cr_result = rates_data

\* A daily series over five days of which every second has the fiat.
C25_Witness ==
    /\ cr_pc = "done"
    /\ end_dt = 4
    /\ fiat_every = 2
    /\ Len(requests) = 5
    /\ [i \in 1 .. Len(cr_result) |-> cr_result[i].day] = <<0, 2, 4>>


\* The sources of the call, in the order of their priority.
SourcesOfCall ==
    IF fx_call = "current"
    THEN <<"exchangerate_api", "openexchangerates", "fixer">>
    ELSE <<"openexchangerates", "fixer">>

\* The source is left out without a request: openexchangerates without
\* an API key.
LeftOut(source) == source = "openexchangerates" /\ ~api_key

\* The rate map the source returns is non-empty.
ReturnsRates(source) ==
    /\ ~LeftOut(source)
    /\ upstream[source].kind = "json"
    /\ upstream[source].rates # {}

\* The sources among the first n that a request goes to.
RECURSIVE AskedAmong(_)
AskedAmong(n) ==
    IF n = 0 THEN <<>>
    ELSE AskedAmong(n - 1)
            \o (IF LeftOut(SourcesOfCall[n]) THEN <<>>
                ELSE <<SourcesOfCall[n]>>)

\* C24: the call returns exactly the rate map of the first source, in the
\* order of priority, that returns a non-empty map; the sources before it
\* were skipped, none after it was asked, and when no source returns a
\* non-empty map all were tried and the result is empty.
C24_FirstSourceWins ==
    fx_pc = "done" =>
        LET winners == {i \in 1 .. Len(SourcesOfCall) :
                           ReturnsRates(SourcesOfCall[i])}
        IN  IF winners = {}
            THEN /\ fx_rates = {}
                 /\ fx_queried = AskedAmong(Len(SourcesOfCall))
            ELSE LET first == CHOOSE i \in winners :
                                  \A j \in winners : i <= j
                 IN  /\ fx_rates = upstream[SourcesOfCall[first]].rates
                     /\ fx_queried = AskedAmong(first)

\* The first source raised, the second returned a map and the third, which
\* has a different map, was not asked.
C24_Witness ==
    /\ fx_pc = "done"
    /\ fx_call = "current"
    /\ api_key
    /\ upstream["exchangerate_api"].kind = "raises"
    /\ upstream["openexchangerates"] = Json({[fiat |-> "SDG", rate |-> 1]})
    /\ upstream["fixer"] = Json({[fiat |-> "VES", rate |-> 2]})
    /\ fx_queried = <<"exchangerate_api", "openexchangerates">>
    /\ fx_rates = {[fiat |-> "SDG", rate |-> 1]}

\* C26 as stated: without an API key get_historical_rates returns the
\* empty map.
C26_Original ==
    fx_pc = "done" /\ fx_call = "historical" /\ ~api_key => fx_rates = {}

\* C26, amended: without an API key get_historical_rates sends no request
\* to openexchangerates and one, without a key, to fixer, and returns the
\* rates of fixer's answer: the empty map when that answer has none or the
\* request raises.
C26_KeylessHistorical ==
    fx_pc = "done" /\ fx_call = "historical" /\ ~api_key =>
        /\ fx_queried = <<"fixer">>
        /\ fx_rates = IF upstream["fixer"].kind = "json"
                      THEN upstream["fixer"].rates
                      ELSE {}

\* Fixer rejected the request without a key and openexchangerates, which
\* would have had rates, was not asked.
C26_Witness ==
    /\ fx_pc = "done"
    /\ fx_call = "historical"
    /\ ~api_key
    /\ upstream["openexchangerates"] = Json({[fiat |-> "SDG", rate |-> 1]})
    /\ upstream["fixer"] = Json({})
    /\ fx_queried = <<"fixer">>
    /\ fx_rates = {}


\* C27: the window of an event holds the price points dated from 30 days
\* before the event to 30 days after it, both days included; the points
\* of the window before the event date are the pre subset and those on or
\* after it the post subset, so that each point of the window is in
\* exactly one of the two and no other point is in either.
C27_WindowSplit ==
    \A k \in 1 .. Len(an_split) :
        LET sp == an_split[k]
            all_days == {btc_data[i].day : i \in 1 .. Len(btc_data)}
        IN  /\ sp.window = {d \in all_days : /\ d >= sp.date - 30
                                             /\ d <= sp.date + 30}
            /\ sp.splits =>
                  /\ sp.pre = {d \in sp.window : d < sp.date}
                  /\ sp.post = {d \in sp.window : d >= sp.date}
                  /\ sp.pre \cap sp.post = {}
                  /\ sp.pre \cup sp.post = sp.window

\* A window with a point on each of its two ends and on the event date,
\* within a series that has points outside it.
C27_Witness ==
    \E k \in 1 .. Len(an_split) :
        LET sp == an_split[k]
        IN  /\ sp.splits
            /\ sp.date = 0
            /\ {-30, 0, 30} \subseteq sp.window
            /\ 0 \in sp.post
            /\ -30 \in sp.pre
            /\ \E i, j \in 1 .. Len(btc_data) :
                  btc_data[i].day = -31 /\ btc_data[j].day = 31


\* The rows of the summary file that carry the key.
RowsOfKey(key) ==
    {k \in 1 .. Len(sm_file.rows) :
        /\ sm_file.rows[k].platform = key[1]
        /\ sm_file.rows[k].country_code = key[2]
        /\ sm_file.rows[k].fiat_currency = key[3]}
CountAds(key, side) ==
    Cardinality({k \in 1 .. Len(sm_df) :
                    KeyOf(sm_df[k]) = key /\ sm_df[k].trade_type \in side})
SumAds(key, side) ==
    LET ks == {k \in 1 .. Len(sm_df) :
                  KeyOf(sm_df[k]) = key /\ sm_df[k].trade_type = side}
    IN  SumPrice([k \in 1 .. Len(sm_df) |->
                     IF k \in ks THEN sm_df[k] ELSE [price |-> 0]])

\* C28: the summary file of a date with loaded ads has exactly one row for
\* each distinct (platform, country_code, fiat) of those ads and no other
\* row; the row counts the ads of the group, its BUY ads and its SELL ads,
\* and its price_spread is the mean SELL price less the mean BUY price, or
\* 0 when the group lacks one of the two sides.
C28_Original ==
    sm_pc = "done" /\ sm_df # <<>> =>
        /\ sm_file.kind = "file"
        /\ \A k \in 1 .. Len(sm_file.rows) :
              \E i \in 1 .. Len(sm_df) :
                  RowsOfKey(KeyOf(sm_df[i])) = {k}
        /\ \A i \in 1 .. Len(sm_df) :
              LET key == KeyOf(sm_df[i])
                  nb == CountAds(key, {"BUY"})
                  ns == CountAds(key, {"SELL"})
              IN  /\ Cardinality(RowsOfKey(key)) = 1
                  /\ \A k \in RowsOfKey(key) :
                        LET row == sm_file.rows[k]
                        IN  /\ row.total_ads = CountAds(key, {"BUY", "SELL"})
                            /\ row.buy_ads = nb
                            /\ row.sell_ads = ns
                            /\ row.price_spread =
                                  IF nb > 0 /\ ns > 0
                                  THEN Rat(SumAds(key, "SELL") * nb
                                             - SumAds(key, "BUY") * ns,
                                           ns * nb)
                                  ELSE Zero


\* A collect_country_data call of the Binance or OKX scraper has returned
\* after it saved a batch that was not empty.
SavedBatchReturned ==
    /\ co_loc.pc = "done"
    /\ co_adapter \in {"binance", "okx"}
    /\ co_loc.save_to_csv
    /\ co_result.kind = "returned"
    /\ co_result.ads # <<>>

\* The collection_id cell of a line of a raw file.
CollectionIdCell(line) == WordOf(CellOrNaN(CsvSplit(line).fields, N_COLUMNS))

\* C29: when a collect_country_data call that saved a non-empty batch has
\* returned, the raw file of its platform and country holds the same
\* collection_id on every ad row, and the collection log has a row with that
\* collection_id, platform and country whose ads_collected is the number of
\* ad rows of the file.
C29_FileMatchesLog ==
    SavedBatchReturned =>
        \E f \in FileIndex(raw_files, today_date, co_adapter, co_country) :
            LET lines == raw_files[f].lines
            IN  /\ lines # <<>>
                /\ \A k \in 1 .. Len(lines) :
                      CollectionIdCell(lines[k]) = co_loc.collection_id
                /\ \E i \in 1 .. Len(collection_log) :
                      /\ collection_log[i].collection_id = co_loc.collection_id
                      /\ collection_log[i].platform = co_adapter
                      /\ collection_log[i].country_code = co_country
                      /\ collection_log[i].ads_collected = Len(lines)

\* A call that collected ads of both trade types over several pages.
C29_Witness ==
    /\ SavedBatchReturned
    /\ co_adapter = "binance"
    /\ co_loc.buy_count = 3
    /\ co_loc.sell_count = 1
    /\ \E f \in FileIndex(raw_files, today_date, co_adapter, co_country) :
          Len(raw_files[f].lines) = 4


\* C30: the total_ads_collected of the results collect_comprehensive_snapshot
\* returns is the total_ads_collected of the summary of the P2P snapshot it
\* ran.
C30_Original ==
    results.kind = "results" =>
        results.total_ads_collected = results.p2p_data.total_ads_collected

=============================================================================
